---- MODULE Spec2Model ----
(***************************************************************************)
(* Transcript ingestion pipeline of scripts/ingest_transcripts.py:         *)
(* parse_transcript -> label_sections -> make_chunks, the PII functions    *)
(* detect_pii / redact_pii, and ingest_folder over a directory.            *)
(*                                                                         *)
(* Text is a sequence of tokens.  A token is a string standing for a run   *)
(* of characters that the code never splits: a timestamp group, a word, a  *)
(* phrase, an ellipsis, a single separator character.  Optional values     *)
(* (Optional[Turn], Optional[str], Optional[int]) are sequences of length  *)
(* 0 (None) or 1.                                                          *)
(***************************************************************************)
EXTENDS Integers, Sequences, FiniteSets, TLC

VARIABLES
    pc,               \* position in ingest_folder's per-file pipeline
    redact,           \* parse_transcript argument
    lines,            \* lines of the file consumed so far (text.splitlines())
    cur,              \* parse_transcript: cur (Optional[Turn])
    turns,            \* parse_transcript: turns; labelled in place later
    lab_i,            \* label_sections: loop index i (0-based)
    sponsor_mode,     \* label_sections: sponsor_mode
    sponsor_start_t,  \* label_sections: sponsor_start_t (Optional[int])
    outro_mode,       \* label_sections: outro_mode
    section_writes,   \* label_sections: per Turn, the values assigned to
                      \* tr.section_type so far, in order
    include_intro,    \* make_chunks argument
    target_words,     \* make_chunks argument
    overlap_turns,    \* make_chunks argument
    usable,           \* make_chunks: usable, as indices into turns
    mc_i,             \* make_chunks: i (0-based index into usable)
    chunk_id,         \* make_chunks: chunk_id
    chunks,           \* make_chunks: chunks
    chunk_log,        \* per emitted chunk: the locals start_i, end_i, words
    pii,              \* detect_pii / redact_pii: argument and results
    slug,             \* slugify: argument and result
    input_dir,        \* ingest_folder: the *.txt files of input_dir, name -> lines
    txt_files,        \* ingest_folder: txt_files
    file_i,           \* ingest_folder: position of the loop over txt_files
    f_chunks,         \* chunks.jsonl, one record per line
    f_index,          \* episodes_index.jsonl, one record per line
    f_csv,            \* manifest.csv, the header then one record per row
    episodes,         \* the directory episodes/: episode_id -> episode_obj
    stats,            \* stats.json (None while it does not exist)
    all_chunks_count, \* ingest_folder: all_chunks_count
    all_turns_count,  \* ingest_folder: all_turns_count
    episodes_written, \* ingest_folder: episodes_written
    run_no,              \* number of the ingest_folder run (1 or 2)
    first_run,        \* the output files as the first run left them
    server,           \* routes.py: the module-level state of the process
                      \* (_vectorstore, _workflow_service, the collection)
    request,          \* the request being served and the await it is at
    served,           \* number of requests received so far
    agents,           \* the AgentResponse of each agent in this request
    invoked,          \* the agent calls of this request, in order
    loc,              \* locals of CounterNarrativeWorkflow.run and of
                      \* WorkflowService._run_workflow_with_progress
    result,           \* the WorkflowResult returned (Optional)
    sent,             \* query_stream: the messages sent on the WebSocket
    closed,           \* query_stream: websocket.close() was called
    response          \* the HTTP response of the last request (Optional)

vars == <<pc, redact, lines, cur, turns, lab_i, sponsor_mode, sponsor_start_t,
          outro_mode, section_writes, include_intro, target_words, overlap_turns, usable,
          mc_i, chunk_id, chunks, chunk_log, pii, slug, input_dir, txt_files,
          file_i, f_chunks, f_index, f_csv, episodes, stats,
          all_chunks_count, all_turns_count, episodes_written, run_no, first_run,
          server, request, served, agents, invoked, loc, result, sent, closed,
          response>>

parseVars == <<redact, lines, cur>>
labelVars == <<lab_i, sponsor_mode, sponsor_start_t, outro_mode, section_writes>>
chunkVars == <<include_intro, target_words, overlap_turns, usable, mc_i,
               chunk_id, chunks, chunk_log>>
piiVars == <<pii>>

slugVars == <<slug>>
workflowVars == <<agents, invoked, loc, result>>
apiVars == <<server, request, served, workflowVars, sent, closed, response>>
outputFiles == <<f_chunks, f_index, f_csv, episodes, stats>>
ingestVars == <<input_dir, txt_files, file_i, outputFiles, all_chunks_count,
                all_turns_count, episodes_written, run_no, first_run>>

(***************************************************************************)
(* Bounds of the model.                                                    *)
(***************************************************************************)
MaxLines == 4
MaxPipelineLines == 3
MaxTurns == 5
MaxOverlap == 2
MaxPieces == 4
MaxFiles == 2

None == <<>>
Some(v) == <<v>>

(***************************************************************************)
(* The backend before any request: routes.py, workflow.py.                 *)
(***************************************************************************)
\* the dict {}; a JSON value is kept as its type and the number of items it
\* holds (the findings of Forethought, the arguments of Quickaction)
EmptyDict == [shape |-> "dict", items |-> 0]

\* run: errors = [], forethought_data = quickaction_data = examiner_data = {}
RunLocals ==
    [errors |-> <<>>, forethought_data |-> EmptyDict,
     quickaction_data |-> EmptyDict, examiner_data |-> EmptyDict]

NoAgents == [forethought |-> None, quickaction |-> None, examiner |-> None]

\* _vectorstore = None, _workflow_service = None; created, loads and
\* load_raised record the calls of VectorStore() and load_from_file
ServerDown ==
    [api_key_configured |-> FALSE, vectorstore |-> None,
     workflow_service |-> None, collection_count |-> 0, created |-> 0,
     loads |-> 0, load_raised |-> FALSE]

NoRequest == [kind |-> "none", pc |-> "idle"]

ApiIdle ==
    /\ server = ServerDown
    /\ request = NoRequest
    /\ served = 0
    /\ agents = NoAgents
    /\ invoked = <<>>
    /\ loc = RunLocals
    /\ result = None
    /\ sent = <<>>
    /\ closed = FALSE
    /\ response = None

(***************************************************************************)
(* Characters and strings.                                                 *)
(***************************************************************************)
\* str.strip() / regex \s: whitespace characters
IsSpace(c) == c \in {" ", "\n"}

RECURSIVE LStrip(_)
LStrip(s) ==
    IF s = <<>> THEN <<>>
    ELSE IF IsSpace(Head(s)) THEN LStrip(Tail(s)) ELSE s

RECURSIVE RStrip(_)
RStrip(s) ==
    IF s = <<>> THEN <<>>
    ELSE IF IsSpace(s[Len(s)]) THEN RStrip(SubSeq(s, 1, Len(s) - 1)) ELSE s

Strip(s) == LStrip(RStrip(s))

EndsWithNewline(s) == s # <<>> /\ s[Len(s)] = "\n"

\* groups h, m, s of \((\d{1,2}):(\d{2}):(\d{2})\), already through int();
\* <<>> for a token that is no timestamp group
TsGroups(tok) ==
    CASE tok = "(00:00:10)" -> <<0, 0, 10>>
      [] tok = "(00:01:05)" -> <<0, 1, 5>>
      [] tok = "(0:08:10)"  -> <<0, 8, 10>>
      [] tok = "(0:08:11)"  -> <<0, 8, 11>>
      [] OTHER -> <<>>

IsTs(tok) == TsGroups(tok) # <<>>

ts_to_seconds(h, m, s) == h * 3600 + m * 60 + s

\* first position >= p of line that holds no whitespace (Len(line)+1 if none)
RECURSIVE SkipSpaces(_, _)
SkipSpaces(line, p) ==
    IF p > Len(line) THEN p
    ELSE IF IsSpace(line[p]) THEN SkipSpaces(line, p + 1) ELSE p

\* \((h):(m):(s)\)\s*: matches at position p of line
TsColonAt(line, p) ==
    /\ p >= 1 /\ p <= Len(line)
    /\ IsTs(line[p])
    /\ LET q == SkipSpaces(line, p + 1) IN q <= Len(line) /\ line[q] = ":"

\* the match object for a timestamp group at p: groups h, m, s and rest
TsMatch(line, p, speaker) ==
    LET q == SkipSpaces(line, p + 1)
        g == TsGroups(line[p])
    IN  [speaker |-> speaker, h |-> g[1], m |-> g[2], s |-> g[3],
         rest |-> LStrip(SubSeq(line, q + 1, Len(line)))]

\* RE_TS_ONLY.match(line): None or Some(match)
RE_TS_ONLY(line) ==
    LET k == SkipSpaces(line, 1)
    IN  IF TsColonAt(line, k) THEN Some(TsMatch(line, k, <<>>)) ELSE None

\* RE_SPEAKER_TS.match(line): None or Some(match).  ^\s* is greedy and the
\* speaker group lazy: the speaker runs from the first non-blank character to
\* the first later timestamp group that is followed by a colon; when there is
\* none, ^\s* gives one blank back to the speaker group.
RE_SPEAKER_TS(line) ==
    LET k == SkipSpaces(line, 1)
        P == {p \in (k + 1)..Len(line) : TsColonAt(line, p)}
    IN  IF P # {}
        THEN LET p == CHOOSE x \in P : \A y \in P : x <= y
             IN  Some(TsMatch(line, p, RStrip(SubSeq(line, k, p - 1))))
        ELSE IF k >= 2 /\ TsColonAt(line, k)
        THEN Some(TsMatch(line, k, <<" ">>))
        ELSE None

\* ELLIPSIS_LINE.match(s)
ELLIPSIS_LINE(s) == Strip(s) = <<"...">>

(***************************************************************************)
(* detect_pii / redact_pii, on strings as sequences of characters.         *)
(***************************************************************************)
\* the characters of a string
Explode(str) == [n \in 1..Len(str) |-> SubSeq(str, n, n)]

Digits == {"0", "1", "2", "3", "4", "5", "6", "7", "8", "9"}

\* [A-Z] under re.IGNORECASE
Letters ==
    {"a", "b", "c", "d", "e", "f", "g", "h", "i", "j", "k", "l", "m", "n",
     "o", "p", "q", "r", "s", "t", "u", "v", "w", "x", "y", "z",
     "A", "B", "C", "D", "E", "F", "G", "H", "I", "J", "K", "L", "M", "N",
     "O", "P", "Q", "R", "S", "T", "U", "V", "W", "X", "Y", "Z"}

\* \w
WordChars == Letters \cup Digits \cup {"_"}

\* [A-Z0-9._%+-] and [A-Z0-9.-] of EMAIL_RE
EmailLocalChars == Letters \cup Digits \cup {".", "_", "%", "+", "-"}
EmailDomainChars == Letters \cup Digits \cup {".", "-"}

\* [\d\s().-] of PHONE_RE
PhoneChars == Digits \cup {" ", "\n", "(", ")", ".", "-"}

\* the last position of the maximal run of characters of class from p on
\* (p - 1 when s[p] is not in class)
RECURSIVE RunEnd(_, _, _)
RunEnd(s, p, class) ==
    IF p <= Len(s) /\ s[p] \in class THEN RunEnd(s, p + 1, class) ELSE p - 1

IsWordAt(s, p) == p >= 1 /\ p <= Len(s) /\ s[p] \in WordChars

\* \b between positions p - 1 and p
WordBoundary(s, p) == IsWordAt(s, p - 1) # IsWordAt(s, p)

\* EMAIL_RE matched at p: the position of the match's last character, 0 when
\* there is no match.  The local part is the run up to the @; the domain is
\* cut at the last dot that is followed by two or more letters and a \b.
EmailEnd(s, p) ==
    LET q == RunEnd(s, p, EmailLocalChars)
        d == q + 2
        e == RunEnd(s, d, EmailDomainChars)
        Dots == {k \in (d + 1)..e :
                    /\ s[k] = "."
                    /\ RunEnd(s, k + 1, Letters) - k >= 2
                    /\ WordBoundary(s, RunEnd(s, k + 1, Letters) + 1)}
    IN  IF /\ WordBoundary(s, p)
           /\ q >= p
           /\ q + 1 <= Len(s) /\ s[q + 1] = "@"
           /\ Dots # {}
        THEN RunEnd(s, (CHOOSE k \in Dots : \A j \in Dots : j <= k) + 1, Letters)
        ELSE 0

\* PHONE_RE matched at p: the position of the match's last character, 0 when
\* there is no match
PhoneEnd(s, p) ==
    LET d0 == IF p <= Len(s) /\ s[p] = "+" THEN p + 1 ELSE p
        r == RunEnd(s, d0 + 1, PhoneChars)
        Ends == {z \in (d0 + 8)..r : s[z] \in Digits}
    IN  IF d0 <= Len(s) /\ s[d0] \in Digits /\ Ends # {}
        THEN CHOOSE z \in Ends : \A y \in Ends : y <= z
        ELSE 0

\* re.finditer from position p on: the matches as <<first, last>> positions
RECURSIVE EmailSpans(_, _)
EmailSpans(s, p) ==
    IF p > Len(s) THEN <<>>
    ELSE IF EmailEnd(s, p) > 0
         THEN <<(<<p, EmailEnd(s, p)>>)>> \o EmailSpans(s, EmailEnd(s, p) + 1)
         ELSE EmailSpans(s, p + 1)

RECURSIVE PhoneSpans(_, _)
PhoneSpans(s, p) ==
    IF p > Len(s) THEN <<>>
    ELSE IF PhoneEnd(s, p) > 0
         THEN <<(<<p, PhoneEnd(s, p)>>)>> \o PhoneSpans(s, PhoneEnd(s, p) + 1)
         ELSE PhoneSpans(s, p + 1)

\* sum(c.isdigit() for c in val)
DigitCount(val) == Cardinality({n \in DOMAIN val : val[n] \in Digits})

MinPhoneDigits == 10

\* the acceptance test on a phone candidate
PhoneAccepted(val) == DigitCount(val) >= MinPhoneDigits

SpanText(s, span) == SubSeq(s, span[1], span[2])

\* the phone matches that pass the digit test
AcceptedPhoneSpans(s) ==
    SelectSeq(PhoneSpans(s, 1), LAMBDA span : PhoneAccepted(SpanText(s, span)))

\* detect_pii as it would be with the phone loop before the email loop
detect_pii_phones_first(s) ==
    LET es == EmailSpans(s, 1)
        ps == AcceptedPhoneSpans(s)
    IN  [n \in DOMAIN ps |-> [type |-> "phone", value |-> SpanText(s, ps[n])]]
        \o [n \in DOMAIN es |-> [type |-> "email", value |-> SpanText(s, es[n])]]

\* detect_pii: the email flags, then the phone flags
detect_pii(s) ==
    LET es == EmailSpans(s, 1)
        ps == AcceptedPhoneSpans(s)
    IN  [n \in DOMAIN es |-> [type |-> "email", value |-> SpanText(s, es[n])]]
        \o [n \in DOMAIN ps |-> [type |-> "phone", value |-> SpanText(s, ps[n])]]

REDACTED_EMAIL == Explode("[REDACTED_EMAIL]")
REDACTED_PHONE == Explode("[REDACTED_PHONE]")

\* re.sub: s from position p on, with every span of spans replaced by token
RECURSIVE Substitute(_, _, _, _)
Substitute(s, p, spans, token) ==
    IF spans = <<>> THEN SubSeq(s, p, Len(s))
    ELSE SubSeq(s, p, Head(spans)[1] - 1) \o token
         \o Substitute(s, Head(spans)[2] + 1, Tail(spans), token)

\* redact_pii: EMAIL_RE.sub, then PHONE_RE.sub on its result
redact_pii(s) ==
    LET s1 == Substitute(s, 1, EmailSpans(s, 1), REDACTED_EMAIL)
    IN  Substitute(s1, 1, AcceptedPhoneSpans(s1), REDACTED_PHONE)

\* the string made of the characters cs
RECURSIVE Implode(_)
Implode(cs) == IF cs = <<>> THEN "" ELSE Head(cs) \o Implode(Tail(cs))

\* the characters of a text given as tokens
RECURSIVE Concat(_)
Concat(parts) ==
    IF parts = <<>> THEN <<>> ELSE Explode(Head(parts)) \o Concat(Tail(parts))

(***************************************************************************)
(* parse_transcript                                                        *)
(***************************************************************************)
Turn(speaker, t, text, is_elided) ==
    [speaker |-> speaker, t |-> t, text |-> text,
     section_type |-> "unknown", is_elided |-> is_elided, pii_flags |-> None]

\* redact_pii(text) when redact is set: a text with a redacted span becomes
\* one token
RedactText(rdct, text) ==
    LET chars == Concat(text)
    IN  IF rdct /\ redact_pii(chars) # chars
        THEN <<Implode(redact_pii(chars))>> ELSE text

\* AddPiiFlags as it would be if an empty list of flags were stored too
AddPiiFlagsKeepEmpty(turn, text) ==
    LET flags == detect_pii(Concat(text))
    IN  [turn EXCEPT !.pii_flags =
            Some((IF @ = None THEN <<>> ELSE @[1]) \o flags)]

\* flags = detect_pii(text); if flags: pii_flags = (pii_flags or []) + flags
AddPiiFlags(turn, text) ==
    LET flags == detect_pii(Concat(text))
    IN  IF flags = <<>> THEN turn
        ELSE [turn EXCEPT !.pii_flags =
                 Some((IF @ = None THEN <<>> ELSE @[1]) \o flags)]

\* Flush as it would be without cur.text.strip()
FlushNoStrip(st) ==
    IF st.cur = None THEN st.turns ELSE Append(st.turns, st.cur[1])

\* Flush as it would be if a Turn without text were not appended
FlushDropEmpty(st) ==
    IF st.cur = None \/ Strip(st.cur[1].text) = <<>> THEN st.turns
    ELSE Append(st.turns, [st.cur[1] EXCEPT !.text = Strip(@)])

\* flush previous: cur.text = cur.text.strip(); turns.append(cur)
Flush(st) ==
    IF st.cur = None THEN st.turns
    ELSE Append(st.turns, [st.cur[1] EXCEPT !.text = Strip(@)])

\* TimestampLine as it would be if the timestamp-only match were tried first
TimestampLinePreferTsOnly(st, line) ==
    LET m1 == RE_SPEAKER_TS(line)
        m2 == RE_TS_ONLY(line)
        m == IF m2 # None THEN m2[1] ELSE m1[1]
        speaker == IF m2 # None THEN None ELSE Some(Strip(m.speaker))
        t == ts_to_seconds(m.h, m.m, m.s)
        rest0 == Strip(m.rest)
        is_elided == ELLIPSIS_LINE(rest0) \/ rest0 = <<>>
        rest == RedactText(st.redact, rest0)
    IN  [st EXCEPT !.cur = Some(AddPiiFlags(Turn(speaker, t, rest, is_elided), rest)),
                   !.turns = Flush(st)]

\* TimestampLine as it would be if is_elided ignored the ellipsis token
TimestampLineNoEllipsis(st, line) ==
    LET m1 == RE_SPEAKER_TS(line)
        m2 == RE_TS_ONLY(line)
        m == IF m1 # None THEN m1[1] ELSE m2[1]
        speaker == IF m1 # None THEN Some(Strip(m.speaker)) ELSE None
        t == ts_to_seconds(m.h, m.m, m.s)
        rest0 == Strip(m.rest)
        is_elided == rest0 = <<>>
        rest == RedactText(st.redact, rest0)
    IN  [st EXCEPT !.cur = Some(AddPiiFlags(Turn(speaker, t, rest, is_elided), rest)),
                   !.turns = Flush(st)]

\* the branch for a line matching a timestamp pattern
TimestampLine(st, line) ==
    LET m1 == RE_SPEAKER_TS(line)
        m2 == RE_TS_ONLY(line)
        m == IF m1 # None THEN m1[1] ELSE m2[1]
        speaker == IF m1 # None THEN Some(Strip(m.speaker)) ELSE None
        t == ts_to_seconds(m.h, m.m, m.s)
        rest0 == Strip(m.rest)
        is_elided == ELLIPSIS_LINE(rest0) \/ rest0 = <<>>
        rest == RedactText(st.redact, rest0)
    IN  [st EXCEPT !.cur = Some(AddPiiFlags(Turn(speaker, t, rest, is_elided), rest)),
                   !.turns = Flush(st)]

\* ContinuationLine as it would be if a Turn without text were replaced by
\* a synthetic Turn too
ContinuationLineFreshTurn(st, line) ==
    LET c0 == IF st.cur = None \/ st.cur[1].text = <<>>
              THEN Turn(None, 0, <<>>, FALSE) ELSE st.cur[1]
        cont == RedactText(st.redact, Strip(line))
        sep == IF c0.text # <<>> /\ ~EndsWithNewline(c0.text) THEN <<" ">> ELSE <<>>
        c1 == [c0 EXCEPT !.text = c0.text \o sep \o cont]
        c2 == IF cont # <<>> /\ ~ELLIPSIS_LINE(cont)
              THEN [c1 EXCEPT !.is_elided = FALSE] ELSE c1
    IN  [st EXCEPT !.cur = Some(AddPiiFlags(c2, cont))]

\* ContinuationLine as it would be without the ELLIPSIS_LINE test
ContinuationLineAnyContent(st, line) ==
    LET c0 == IF st.cur = None THEN Turn(None, 0, <<>>, FALSE) ELSE st.cur[1]
        cont == RedactText(st.redact, Strip(line))
        sep == IF c0.text # <<>> /\ ~EndsWithNewline(c0.text) THEN <<" ">> ELSE <<>>
        c1 == [c0 EXCEPT !.text = c0.text \o sep \o cont]
        c2 == IF cont # <<>> THEN [c1 EXCEPT !.is_elided = FALSE] ELSE c1
    IN  [st EXCEPT !.cur = Some(AddPiiFlags(c2, cont))]

\* the branch for a continuation line
ContinuationLine(st, line) ==
    LET c0 == IF st.cur = None THEN Turn(None, 0, <<>>, FALSE) ELSE st.cur[1]
        cont == RedactText(st.redact, Strip(line))
        sep == IF c0.text # <<>> /\ ~EndsWithNewline(c0.text) THEN <<" ">> ELSE <<>>
        c1 == [c0 EXCEPT !.text = c0.text \o sep \o cont]
        c2 == IF cont # <<>> /\ ~ELLIPSIS_LINE(cont)
              THEN [c1 EXCEPT !.is_elided = FALSE] ELSE c1
    IN  [st EXCEPT !.cur = Some(AddPiiFlags(c2, cont))]

\* BlankLine as it would be without the endswith("\n") test
BlankLineAlways(st) ==
    IF st.cur # None /\ st.cur[1].text # <<>>
    THEN [st EXCEPT !.cur = Some([st.cur[1] EXCEPT !.text = Append(@, "\n")])]
    ELSE st

\* the branch for a blank line
BlankLine(st) ==
    IF st.cur # None /\ st.cur[1].text # <<>> /\ ~EndsWithNewline(st.cur[1].text)
    THEN [st EXCEPT !.cur = Some([st.cur[1] EXCEPT !.text = Append(@, "\n")])]
    ELSE st

\* one iteration of `for raw_line in text.splitlines()`
ParseStep(st, line) ==
    IF Strip(line) = <<>> THEN BlankLine(st)
    ELSE IF RE_SPEAKER_TS(line) # None \/ RE_TS_ONLY(line) # None
         THEN TimestampLine(st, line)
         ELSE ContinuationLine(st, line)

RECURSIVE ParseLoop(_, _)
ParseLoop(st, ls) ==
    IF ls = <<>> THEN st ELSE ParseLoop(ParseStep(st, Head(ls)), Tail(ls))

\* the locals at the entry of parse_transcript
ParseInit(rdct) == [cur |-> None, turns |-> <<>>, redact |-> rdct]

parse_transcript(ls, rdct) == Flush(ParseLoop(ParseInit(rdct), ls))

(***************************************************************************)
(* Input lines.                                                            *)
(***************************************************************************)
LineSet ==
    { <<" ">>,
      <<"(00:00:10)", ":">>,
      <<"(00:00:10)", ":", " ", "...">>,
      <<"Jane", " ", "Doe", " ", "(00:01:05)", ":", " ", "I disagree with that.">>,
      <<"and here's why.">>,
      <<"...">>,
      <<"(00:00:10)", ":", " ", "sponsored by">>,
      <<"(00:01:05)", ":", " ", "Please Subscribe">>,
      <<" ", " ", "(0:08:11)", ":", " ", "w">>,
      <<"(00:01:05)", ":", " ", "a@b.co">>,
      <<"555-123-4567">> }

(***************************************************************************)
(* label_sections                                                          *)
(***************************************************************************)
SPONSOR_START ==
    { "this episode is brought to you by", "sponsored by", "our sponsor",
      "support this podcast", "thanks to our sponsor" }

SPONSOR_TRANSITION ==
    { "and so with that", "with that", "let's get into", "now, my guest",
      "here's my conversation", "okay, let's start", "let's start",
      "today's guest", "i bring you" }

OUTRO_MARKERS ==
    { "thank you so much for listening", "thanks so much for listening",
      "if you enjoyed this episode", "please subscribe", "see you next time",
      "leave a review" }

SponsorTimeout == 480

\* str.lower() on one token
LowerTok(tok) ==
    CASE tok = "Please Subscribe" -> "please subscribe"
      [] tok = "I disagree with that." -> "i disagree with that."
      [] tok = "Jane" -> "jane"
      [] tok = "[REDACTED_EMAIL]" -> "[redacted_email]"
      [] tok = "[REDACTED_PHONE]" -> "[redacted_phone]"
      [] tok = "a@b.co[REDACTED_PHONE]" -> "a@b.co[redacted_phone]"
      [] tok = "Doe" -> "doe"
      [] OTHER -> tok

Lower(s) == [n \in DOMAIN s |-> LowerTok(s[n])]

\* k in tok, for a phrase k and a token tok
PhraseInTok(k, tok) ==
    \/ k = tok
    \/ k = "with that" /\ tok \in {"i disagree with that.", "and so with that"}
    \/ k = "let's start" /\ tok = "okay, let's start"
    \/ k = "our sponsor" /\ tok = "thanks to our sponsor"

\* any(k in text_l for k in phrases)
AnyIn(phrases, text_l) ==
    \E k \in phrases : \E n \in DOMAIN text_l : PhraseInTok(k, text_l[n])

\* any(t.section_type == "sponsor" for t in turns[:i])
SawSponsorBefore(ts, i) ==
    \E n \in 1..i : ts[n].section_type = "sponsor"

\* LabelOf as it would be if only the first Turn could be intro
LabelOfIntroOnlyFirst(ls, i) ==
    LET tr == ls.turns[i + 1]
        text_l == Lower(tr.text)
    IN  IF ls.outro_mode THEN "outro"
        ELSE IF AnyIn(OUTRO_MARKERS, text_l) THEN "outro"
        ELSE IF ~ls.sponsor_mode /\ AnyIn(SPONSOR_START, text_l) THEN "sponsor"
        ELSE IF ls.sponsor_mode THEN
            IF AnyIn(SPONSOR_TRANSITION, text_l) THEN "conversation"
            ELSE IF ls.sponsor_start_t # None
                    /\ tr.t - ls.sponsor_start_t[1] > SponsorTimeout
                 THEN "conversation"
                 ELSE "sponsor"
        ELSE IF i = 0 THEN "intro"
        ELSE "conversation"

\* LabelOf as it would be if the sponsor block ended at 480 seconds already
LabelOfTimeoutInclusive(ls, i) ==
    LET tr == ls.turns[i + 1]
        text_l == Lower(tr.text)
    IN  IF ls.outro_mode THEN "outro"
        ELSE IF AnyIn(OUTRO_MARKERS, text_l) THEN "outro"
        ELSE IF ~ls.sponsor_mode /\ AnyIn(SPONSOR_START, text_l) THEN "sponsor"
        ELSE IF ls.sponsor_mode THEN
            IF AnyIn(SPONSOR_TRANSITION, text_l) THEN "conversation"
            ELSE IF ls.sponsor_start_t # None
                    /\ tr.t - ls.sponsor_start_t[1] >= SponsorTimeout
                 THEN "conversation"
                 ELSE "sponsor"
        ELSE IF i = 0 THEN "intro"
        ELSE IF SawSponsorBefore(ls.turns, i) THEN "conversation" ELSE "intro"

\* LabelOf as it would be if the sponsor rules were tried before the outro
\* marker
LabelOfSponsorFirst(ls, i) ==
    LET tr == ls.turns[i + 1]
        text_l == Lower(tr.text)
    IN  IF ls.outro_mode THEN "outro"
        ELSE IF ~ls.sponsor_mode /\ AnyIn(SPONSOR_START, text_l) THEN "sponsor"
        ELSE IF AnyIn(OUTRO_MARKERS, text_l) THEN "outro"
        ELSE IF ls.sponsor_mode THEN
            IF AnyIn(SPONSOR_TRANSITION, text_l) THEN "conversation"
            ELSE IF ls.sponsor_start_t # None
                    /\ tr.t - ls.sponsor_start_t[1] > SponsorTimeout
                 THEN "conversation"
                 ELSE "sponsor"
        ELSE IF i = 0 THEN "intro"
        ELSE IF SawSponsorBefore(ls.turns, i) THEN "conversation" ELSE "intro"

\* LabelOf as it would be without the `if outro_mode` branch
LabelOfNoLatch(ls, i) ==
    LET tr == ls.turns[i + 1]
        text_l == Lower(tr.text)
    IN  IF AnyIn(OUTRO_MARKERS, text_l) THEN "outro"
        ELSE IF ~ls.sponsor_mode /\ AnyIn(SPONSOR_START, text_l) THEN "sponsor"
        ELSE IF ls.sponsor_mode THEN
            IF AnyIn(SPONSOR_TRANSITION, text_l) THEN "conversation"
            ELSE IF ls.sponsor_start_t # None
                    /\ tr.t - ls.sponsor_start_t[1] > SponsorTimeout
                 THEN "conversation"
                 ELSE "sponsor"
        ELSE IF i = 0 THEN "intro"
        ELSE IF SawSponsorBefore(ls.turns, i) THEN "conversation" ELSE "intro"

\* the section_type the loop body leaves on turns[i] (i 0-based)
LabelOf(ls, i) ==
    LET tr == ls.turns[i + 1]
        text_l == Lower(tr.text)
    IN  IF ls.outro_mode THEN "outro"
        ELSE IF AnyIn(OUTRO_MARKERS, text_l) THEN "outro"
        ELSE IF ~ls.sponsor_mode /\ AnyIn(SPONSOR_START, text_l) THEN "sponsor"
        ELSE IF ls.sponsor_mode THEN
            IF AnyIn(SPONSOR_TRANSITION, text_l) THEN "conversation"
            ELSE IF ls.sponsor_start_t # None
                    /\ tr.t - ls.sponsor_start_t[1] > SponsorTimeout
                 THEN "conversation"
                 ELSE "sponsor"
        ELSE IF i = 0 THEN "intro"
        ELSE IF SawSponsorBefore(ls.turns, i) THEN "conversation" ELSE "intro"

\* SectionWrites as it would be if elided Turns were skipped
SectionWritesSkipElided(ls, i) ==
    LET tr == ls.turns[i + 1]
        text_l == Lower(tr.text)
        lab == LabelOf(ls, i)
    IN  IF tr.is_elided THEN <<>>
        ELSE IF /\ ~ls.outro_mode
                /\ ~AnyIn(OUTRO_MARKERS, text_l)
                /\ ls.sponsor_mode
                /\ lab = "conversation"
        THEN <<"sponsor", "conversation">>
        ELSE <<lab>>

\* the values the loop body assigns to turns[i].section_type, in order: in
\* sponsor mode "sponsor" is assigned first and overwritten when the block ends
SectionWrites(ls, i) ==
    LET tr == ls.turns[i + 1]
        text_l == Lower(tr.text)
        lab == LabelOf(ls, i)
    IN  IF /\ ~ls.outro_mode
           /\ ~AnyIn(OUTRO_MARKERS, text_l)
           /\ ls.sponsor_mode
           /\ lab = "conversation"
        THEN <<"sponsor", "conversation">>
        ELSE <<lab>>

\* SetSectionType as it would be if the lowercased text were stored too
SetSectionTypeAndText(ts, i, lab) ==
    [ts EXCEPT ![i + 1].section_type = lab, ![i + 1].text = Lower(@)]

\* tr.section_type = lab
SetSectionType(ts, i, lab) == [ts EXCEPT ![i + 1].section_type = lab]

\* the assignments of one iteration, applied in order
RECURSIVE AssignAll(_, _, _)
AssignAll(ts, i, writes) ==
    IF writes = <<>> THEN ts
    ELSE AssignAll(SetSectionType(ts, i, Head(writes)), i, Tail(writes))

\* LabelStep as it would be if every sponsor-start phrase set sponsor_start_t
LabelStepResetStart(ls, i) ==
    LET tr == ls.turns[i + 1]
        text_l == Lower(tr.text)
        lab == LabelOf(ls, i)
        writes == SectionWrites(ls, i)
        labelled == [ls EXCEPT !.turns = AssignAll(ls.turns, i, writes),
                               !.writes[i + 1] = @ \o writes]
    IN  IF ls.outro_mode THEN labelled
        ELSE IF AnyIn(OUTRO_MARKERS, text_l)
        THEN [labelled EXCEPT !.outro_mode = TRUE]
        ELSE IF ~ls.sponsor_mode /\ AnyIn(SPONSOR_START, text_l)
        THEN [labelled EXCEPT !.sponsor_mode = TRUE,
                              !.sponsor_start_t = Some(tr.t)]
        ELSE IF ls.sponsor_mode /\ lab = "conversation"
        THEN [labelled EXCEPT !.sponsor_mode = FALSE,
                              !.sponsor_start_t = None]
        ELSE IF ls.sponsor_mode /\ AnyIn(SPONSOR_START, text_l)
        THEN [labelled EXCEPT !.sponsor_start_t = Some(tr.t)]
        ELSE labelled

\* one iteration of `for i, tr in enumerate(turns)`
LabelStep(ls, i) ==
    LET tr == ls.turns[i + 1]
        text_l == Lower(tr.text)
        lab == LabelOf(ls, i)
        writes == SectionWrites(ls, i)
        labelled == [ls EXCEPT !.turns = AssignAll(ls.turns, i, writes),
                               !.writes[i + 1] = @ \o writes]
    IN  IF ls.outro_mode THEN labelled
        ELSE IF AnyIn(OUTRO_MARKERS, text_l)
        THEN [labelled EXCEPT !.outro_mode = TRUE]
        ELSE IF ~ls.sponsor_mode /\ AnyIn(SPONSOR_START, text_l)
        THEN [labelled EXCEPT !.sponsor_mode = TRUE,
                              !.sponsor_start_t = Some(tr.t)]
        ELSE IF ls.sponsor_mode /\ lab = "conversation"
        THEN [labelled EXCEPT !.sponsor_mode = FALSE,
                              !.sponsor_start_t = None]
        ELSE labelled

LabelInit(ts) ==
    [turns |-> ts, sponsor_mode |-> FALSE, sponsor_start_t |-> None,
     outro_mode |-> FALSE, writes |-> [n \in DOMAIN ts |-> <<>>]]

RECURSIVE LabelLoop(_, _)
LabelLoop(ls, i) ==
    IF i >= Len(ls.turns) THEN ls ELSE LabelLoop(LabelStep(ls, i), i + 1)

label_sections(ts) == LabelLoop(LabelInit(ts), 0)

(***************************************************************************)
(* make_chunks                                                             *)
(***************************************************************************)
\* len(re.findall(r"\w+", tok)) for one token
WordsInTok(tok) ==
    CASE tok \in {"w", "Jane", "Doe", "Narration", "[REDACTED_EMAIL]",
                  "[REDACTED_PHONE]"} -> 1
      [] tok \in {"a@b.co", "555-123-4567"} -> 3
      [] tok \in {"sponsored by", "Please Subscribe", "please subscribe",
                  "with that"} -> 2
      [] tok \in {"I disagree with that.", "and here's why.",
                  "a@b.co[REDACTED_PHONE]"} -> 4
      [] IsTs(tok) -> 3
      [] OTHER -> 0

\* the token's first / last character is a word character
StartsWithWordChar(tok) ==
    /\ WordsInTok(tok) > 0
    /\ ~IsTs(tok)
    /\ tok \notin {"[REDACTED_EMAIL]", "[REDACTED_PHONE]"}

EndsWithWordChar(tok) ==
    StartsWithWordChar(tok)
    /\ tok \notin {"I disagree with that.", "and here's why.",
                    "a@b.co[REDACTED_PHONE]"}

RECURSIVE SumWords(_)
SumWords(s) == IF s = <<>> THEN 0 ELSE WordsInTok(Head(s)) + SumWords(Tail(s))

\* word_count(s): maximal runs of word characters; two tokens that meet
\* without a separator share one run
word_count(s) ==
    SumWords(s)
    - Cardinality({n \in 1..(Len(s) - 1) :
                     EndsWithWordChar(s[n]) /\ StartsWithWordChar(s[n + 1])})

\* the section types make_chunks accepts
Allowed(incl) == {"conversation"} \cup (IF incl THEN {"intro"} ELSE {})

\* IsUsable as it would be without `not t.is_elided`
IsUsableNoElided(t, incl) ==
    /\ t.section_type \in Allowed(incl)
    /\ Strip(t.text) # <<>>
    /\ ~ELLIPSIS_LINE(Strip(t.text))

\* the condition of the list comprehension that builds usable
IsUsable(t, incl) ==
    /\ t.section_type \in Allowed(incl)
    /\ Strip(t.text) # <<>>
    /\ ~t.is_elided
    /\ ~ELLIPSIS_LINE(Strip(t.text))

RECURSIVE UsableFrom(_, _, _)
UsableFrom(ts, incl, n) ==
    IF n > Len(ts) THEN <<>>
    ELSE (IF IsUsable(ts[n], incl) THEN <<n>> ELSE <<>>)
         \o UsableFrom(ts, incl, n + 1)

\* usable, as the indices (into turns) of the Turn objects it holds
Usable(ts, incl) == UsableFrom(ts, incl, 1)

\* seq[k] with Python's indexing (0-based, negative from the end)
PyIndex(seq, k) == IF k < 0 THEN seq[Len(seq) + k + 1] ELSE seq[k + 1]

\* f"{t:06d}"
Pad6(t) ==
    LET d == ToString(t)
    IN  IF Len(d) < 6 THEN SubSeq("000000", 1, 6 - Len(d)) \o d ELSE d

\* (t.speaker or "Narration").strip()
SpeakerLabel(t) ==
    IF t.speaker = None \/ t.speaker[1] = <<>>
    THEN <<"Narration">> ELSE Strip(t.speaker[1])

\* f"{spk} ({t.t:06d}s): {t.text}"
Render(t) ==
    SpeakerLabel(t) \o <<" ", "(" \o Pad6(t.t) \o "s)", ":", " ">> \o t.text

\* "\n".join(parts)
RECURSIVE JoinLines(_)
JoinLines(parts) ==
    IF parts = <<>> THEN <<>>
    ELSE IF Len(parts) = 1 THEN parts[1]
    ELSE parts[1] \o <<"\n">> \o JoinLines(Tail(parts))

\* the inner while loop: the value of i when it stops
RECURSIVE InnerEnd(_, _, _, _, _)
InnerEnd(ts, us, tw, i, words) ==
    IF i < Len(us) /\ words < tw
    THEN InnerEnd(ts, us, tw, i + 1, words + word_count(ts[us[i + 1]].text))
    ELSE i

\* the inner while loop: the value of words when it stops
RECURSIVE InnerWords(_, _, _, _, _)
InnerWords(ts, us, tw, i, words) ==
    IF i < Len(us) /\ words < tw
    THEN InnerWords(ts, us, tw, i + 1, words + word_count(ts[us[i + 1]].text))
    ELSE words

Max(a, b) == IF a >= b THEN a ELSE b

\* NextStart as it would be if a run without overlap stepped over one Turn
NextStartSkipOne(i, start_i, ov) ==
    IF ov > 0 THEN Max(i - ov, start_i + 1) ELSE i + 1

\* NextStart as it would be with max(..., start_i)
NextStartNoFloor(i, start_i, ov) ==
    IF ov > 0 THEN Max(i - ov, start_i) ELSE i

\* the value of i after `if overlap_turns > 0: i = max(...)`
NextStart(i, start_i, ov) ==
    IF ov > 0 THEN Max(i - ov, start_i + 1) ELSE i

\* the dict appended to chunks by one iteration of the outer loop
ChunkOf(ts, us, start_i, i, cid) ==
    LET consumed == [n \in 1..(i - start_i) |-> ts[us[start_i + n]]]
    IN  [chunk_id |-> cid,
         t_start |-> ts[PyIndex(us, start_i)].t,
         t_end |-> ts[PyIndex(us, i - 1)].t,
         speakers |-> {SpeakerLabel(consumed[n]) : n \in DOMAIN consumed},
         text |-> Strip(JoinLines([n \in DOMAIN consumed |-> Render(consumed[n])]))]

\* chunk_id as it would be without the increment
NextChunkIdStuck(cid) == cid

\* chunk_id += 1
NextChunkId(cid) == cid + 1

\* the indices (into turns) of the Turn objects one iteration reads
TurnsRead(us, start_i, i) ==
    {us[start_i + n] : n \in 1..(i - start_i)}
    \cup {PyIndex(us, start_i), PyIndex(us, i - 1)}

(***************************************************************************)
(* ingest_folder                                                           *)
(***************************************************************************)
\* the characters that occur in file names, in code point order
CharOrder == Explode(" -.0123456789ABCDEFGHIJKLMNOPQRSTUVWXYZ_abcdefghijklmnopqrstuvwxyz")

Ord(c) == CHOOSE n \in DOMAIN CharOrder : CharOrder[n] = c

\* a < b for strings given as characters
RECURSIVE StrLess(_, _)
StrLess(a, b) ==
    IF b = <<>> THEN FALSE
    ELSE IF a = <<>> THEN TRUE
    ELSE IF Head(a) # Head(b) THEN Ord(Head(a)) < Ord(Head(b))
    ELSE StrLess(Tail(a), Tail(b))

\* Sorted as it would be in descending order
RECURSIVE SortedDescending(_)
SortedDescending(names) ==
    IF names = {} THEN <<>>
    ELSE LET greatest == CHOOSE a \in names :
                 \A b \in names \ {a} : StrLess(Explode(b), Explode(a))
         IN  <<greatest>> \o SortedDescending(names \ {greatest})

\* sorted(names)
RECURSIVE Sorted(_)
Sorted(names) ==
    IF names = {} THEN <<>>
    ELSE LET least == CHOOSE a \in names :
                 \A b \in names \ {a} : StrLess(Explode(a), Explode(b))
         IN  <<least>> \o Sorted(names \ {least})

UpperCase == Explode("ABCDEFGHIJKLMNOPQRSTUVWXYZ")
LowerCase == Explode("abcdefghijklmnopqrstuvwxyz")

\* c.lower()
LowerChar(c) ==
    IF \E n \in DOMAIN UpperCase : UpperCase[n] = c
    THEN LowerCase[CHOOSE n \in DOMAIN UpperCase : UpperCase[n] = c]
    ELSE c

\* s.strip(c) for the characters of the set cs
RECURSIVE LStripChars(_, _)
LStripChars(s, cs) ==
    IF s # <<>> /\ Head(s) \in cs THEN LStripChars(Tail(s), cs) ELSE s

RECURSIVE RStripChars(_, _)
RStripChars(s, cs) ==
    IF s # <<>> /\ s[Len(s)] \in cs
    THEN RStripChars(SubSeq(s, 1, Len(s) - 1), cs) ELSE s

StripChars(s, cs) == RStripChars(LStripChars(s, cs), cs)

\* file_path.stem: the name without its last suffix
Stem(name) ==
    LET dots == {n \in 2..Len(name) : name[n] = "."}
    IN  IF dots = {} THEN name
        ELSE SubSeq(name, 1, (CHOOSE n \in dots : \A k \in dots : k <= n) - 1)

\* infer_episode_title, on the characters of the file name
infer_episode_title(name) ==
    StripChars([n \in DOMAIN Stem(name) |->
                   IF Stem(name)[n] = "_" THEN " " ELSE Stem(name)[n]], {" "})

SlugChars == Digits \cup {LowerCase[n] : n \in DOMAIN LowerCase}

\* re.sub(r'[^a-z0-9]+', '-', s)
\* every slug character is kept, and the first character of every run of
\* other characters becomes the hyphen that replaces the run
Hyphenate(s) ==
    LET kept == SelectSeq([n \in DOMAIN s |-> n],
                          LAMBDA n : \/ s[n] \in SlugChars
                                     \/ n = 1
                                     \/ s[n - 1] \in SlugChars)
    IN  [k \in DOMAIN kept |->
            IF s[kept[k]] \in SlugChars THEN s[kept[k]] ELSE "-"]

SlugCap == 120

\* slugify, on characters
slugify(name) ==
    LET lowered == [n \in DOMAIN StripChars(name, {" "}) |->
                       LowerChar(StripChars(name, {" "})[n])]
        trimmed == StripChars(Hyphenate(lowered), {"-"})
    IN  SubSeq(trimmed, 1, IF Len(trimmed) < SlugCap THEN Len(trimmed) ELSE SlugCap)

\* the outer loop of make_chunks from index i on: Some(chunks), or None when
\* the loop never ends (an iteration that leaves i where it was)
RECURSIVE ChunkLoop(_, _, _, _, _, _, _)
ChunkLoop(ts, us, tw, ov, i, cid, acc) ==
    IF i >= Len(us) THEN Some(acc)
    ELSE LET inner == InnerEnd(ts, us, tw, i, 0)
             next_i == NextStart(inner, i, ov)
         IN  IF next_i = i THEN None
             ELSE ChunkLoop(ts, us, tw, ov, next_i, NextChunkId(cid),
                            Append(acc, ChunkOf(ts, us, i, inner, cid)))

\* make_chunks as a whole
make_chunks(ts, incl, tw, ov) ==
    IF Usable(ts, incl) = <<>> THEN Some(<<>>)
    ELSE ChunkLoop(ts, Usable(ts, incl), tw, ov, 0, 0, <<>>)

\* has_pii = any(t.pii_flags for t in turns if t.pii_flags)
HasPii(ts) == \E n \in DOMAIN ts : ts[n].pii_flags # None

\* what one pass of the loop over txt_files computes for the file name with
\* the given lines
EpisodeOf(name, ls, rdct, incl, tw, ov) ==
    CHOOSE ep \in
        {[episode_id |-> Implode(slugify(title)),
          title |-> Implode(title),
          source_file |-> name,
          turns |-> ts,
          chunks |-> make_chunks(ts, incl, tw, ov),
          has_pii |-> HasPii(ts)] :
            ts \in {label_sections(parse_transcript(ls, rdct)).turns},
            title \in {infer_episode_title(Explode(name))}} : TRUE

episode_obj(ep) ==
    [episode_id |-> ep.episode_id, title |-> ep.title,
     source_file |-> ep.source_file, turns |-> ep.turns]

index_obj(ep) ==
    [episode_id |-> ep.episode_id, title |-> ep.title,
     source_file |-> ep.source_file, turn_count |-> Len(ep.turns),
     chunk_count |-> Len(ep.chunks[1]), has_pii |-> ep.has_pii]

ch_obj(ep, ch) ==
    [episode_id |-> ep.episode_id, title |-> ep.title,
     source_file |-> ep.source_file, chunk_id |-> ch.chunk_id,
     t_start |-> ch.t_start, t_end |-> ch.t_end, speakers |-> ch.speakers,
     text |-> ch.text]

manifest_row(ep) ==
    [episode_id |-> ep.episode_id, title |-> ep.title,
     source_file |-> ep.source_file, turns |-> Len(ep.turns),
     chunks |-> Len(ep.chunks[1]), has_pii |-> ep.has_pii,
     notes |-> IF ep.has_pii THEN "PII detected (consider --redact_pii)" ELSE ""]

manifest_header ==
    <<"episode_id", "title", "source_file", "turns", "chunks", "has_pii", "notes">>

\* open(path, "w") as it would be in append mode
OpenForAppend(old) == old

\* open(path, "w") on a file with the content old
OpenForWrite(old) == <<>>

\* write_text as it would be if an existing file were kept
WriteEpisodeKeepFirst(dir, id, obj) ==
    [x \in DOMAIN dir \cup {id} |-> IF x \in DOMAIN dir THEN dir[x] ELSE obj]

\* (episodes_dir / f"{episode_id}.json").write_text(...)
WriteEpisode(dir, id, obj) ==
    [x \in DOMAIN dir \cup {id} |-> IF x = id THEN obj ELSE dir[x]]

\* the *.txt files and their lines
FileNames == {"a b.txt", "a_b.txt", "C.txt"}

FileContents ==
    { <<>>,
      << <<"(00:01:05)", ":", " ", "a@b.co">> >>,
      << <<"(00:01:05)", ":", " ", "a@b.co", "555-123-4567">> >>,
      << <<"(00:00:10)", ":", " ", "sponsored by">>,
         <<"(0:08:11)", ":", " ", "w">> >>,
      << <<"(00:00:10)", ":", " ", "sponsored by">>,
         <<"(0:08:11)", ":", " ", "w">>,
         <<"(0:08:11)", ":", " ", "w">> >> }

InputDirs ==
    UNION {[names -> FileContents] :
              names \in {ns \in SUBSET FileNames : Cardinality(ns) <= MaxFiles}}

\* no ingest_folder run
IngestIdle ==
    /\ input_dir = <<>>
    /\ txt_files = <<>>
    /\ file_i = 0
    /\ f_chunks = <<>>
    /\ f_index = <<>>
    /\ f_csv = <<>>
    /\ episodes = <<>>
    /\ stats = None
    /\ all_chunks_count = 0
    /\ all_turns_count = 0
    /\ episodes_written = 0
    /\ run_no = 0
    /\ first_run = None

(***************************************************************************)
(* The arguments of detect_pii / redact_pii.                               *)
(***************************************************************************)
\* texts handed to detect_pii / redact_pii
PiiPieces ==
    {"123456789", " ", "0", "a", "@b.co", "555-123-4567", "+"}

PiiTexts == {Concat(ps) : ps \in UNION {[1..n -> PiiPieces] : n \in 0..MaxPieces}}

SlugIdle == [pc |-> "idle", title |-> <<>>, id |-> <<>>]

PiiIdle ==
    [pc |-> "idle", text |-> <<>>, flags |-> <<>>, redacted |-> <<>>,
     flags_after |-> <<>>]

(***************************************************************************)
(* The per-file pipeline of ingest_folder.                                 *)
(***************************************************************************)
TargetWordsSet == {0, 1, 10}
OverlapSet == 0..MaxOverlap
MaxChunks == MaxTurns + 1

Init ==
    /\ pc = "parse"
    /\ redact \in BOOLEAN
    /\ lines = <<>>
    /\ cur = None
    /\ turns = <<>>
    /\ lab_i = 0
    /\ sponsor_mode = FALSE
    /\ sponsor_start_t = None
    /\ outro_mode = FALSE
    /\ section_writes = <<>>
    /\ include_intro = FALSE
    /\ target_words = 0
    /\ overlap_turns = 0
    /\ usable = <<>>
    /\ mc_i = 0
    /\ chunk_id = 0
    /\ chunks = <<>>
    /\ chunk_log = <<>>
    /\ pii = PiiIdle
    /\ slug = SlugIdle
    /\ ApiIdle
    /\ IngestIdle

\* parse_transcript: one line of the file
ParseLineFrom(lineSet, maxLines) ==
    /\ pc = "parse"
    /\ Len(lines) < maxLines
    /\ \E line \in lineSet :
          LET st == ParseStep([cur |-> cur, turns |-> turns, redact |-> redact], line)
          IN  /\ lines' = Append(lines, line)
              /\ cur' = st.cur
              /\ turns' = st.turns
    /\ UNCHANGED <<piiVars, slugVars, apiVars, ingestVars, pc, redact, labelVars, chunkVars>>

ParseLineUpTo(maxLines) == ParseLineFrom(LineSet, maxLines)

ParseLine == ParseLineUpTo(MaxLines)

ParseLineShort == ParseLineUpTo(MaxPipelineLines)

\* parse_transcript: end of the file, final flush and return
ParseEOF ==
    /\ pc = "parse"
    /\ turns' = Flush([cur |-> cur, turns |-> turns])
    /\ cur' = IF cur = None THEN None ELSE Some([cur[1] EXCEPT !.text = Strip(@)])
    /\ pc' = "parsed"
    /\ UNCHANGED <<piiVars, slugVars, apiVars, ingestVars, redact, lines, labelVars, chunkVars>>

\* label_sections: entry
LabelBegin ==
    /\ pc = "parsed"
    /\ lab_i' = 0
    /\ sponsor_mode' = FALSE
    /\ sponsor_start_t' = None
    /\ outro_mode' = FALSE
    /\ section_writes' = [n \in DOMAIN turns |-> <<>>]
    /\ pc' = IF turns = <<>> THEN "labeled" ELSE "label"
    /\ UNCHANGED <<piiVars, slugVars, apiVars, ingestVars, parseVars, turns, chunkVars>>

\* label_sections: one iteration of the loop
LabelTurn ==
    /\ pc = "label"
    /\ lab_i < Len(turns)
    /\ LET ls == LabelStep([turns |-> turns, sponsor_mode |-> sponsor_mode,
                            sponsor_start_t |-> sponsor_start_t,
                            outro_mode |-> outro_mode,
                            writes |-> section_writes], lab_i)
       IN  /\ turns' = ls.turns
           /\ sponsor_mode' = ls.sponsor_mode
           /\ sponsor_start_t' = ls.sponsor_start_t
           /\ outro_mode' = ls.outro_mode
           /\ section_writes' = ls.writes
    /\ lab_i' = lab_i + 1
    /\ UNCHANGED <<piiVars, slugVars, apiVars, ingestVars, pc, parseVars, chunkVars>>

\* label_sections: the loop is exhausted
LabelReturn ==
    /\ pc = "label"
    /\ lab_i >= Len(turns)
    /\ pc' = "labeled"
    /\ UNCHANGED <<piiVars, slugVars, apiVars, ingestVars, parseVars, turns, labelVars, chunkVars>>

\* make_chunks: entry, with its arguments; builds usable
MakeChunksBegin ==
    /\ pc = "labeled"
    /\ \E incl \in BOOLEAN, tw \in TargetWordsSet, ov \in OverlapSet :
          /\ include_intro' = incl
          /\ target_words' = tw
          /\ overlap_turns' = ov
          /\ usable' = Usable(turns, incl)
          /\ pc' = IF Usable(turns, incl) = <<>> THEN "done" ELSE "chunking"
    /\ mc_i' = 0
    /\ chunk_id' = 0
    /\ chunks' = <<>>
    /\ chunk_log' = <<>>
    /\ UNCHANGED <<piiVars, slugVars, apiVars, ingestVars, parseVars, turns, labelVars>>

\* make_chunks: one iteration of the outer while loop
ChunkStep ==
    /\ pc = "chunking"
    /\ mc_i < Len(usable)
    /\ Len(chunks) < MaxChunks
    /\ LET start_i == mc_i
           i == InnerEnd(turns, usable, target_words, mc_i, 0)
           words == InnerWords(turns, usable, target_words, mc_i, 0)
       IN  /\ chunks' = Append(chunks, ChunkOf(turns, usable, start_i, i, chunk_id))
           /\ chunk_log' = Append(chunk_log,
                  [start_i |-> start_i, end_i |-> i - 1, words |-> words,
                   read |-> TurnsRead(usable, start_i, i)])
           /\ mc_i' = NextStart(i, start_i, overlap_turns)
    /\ chunk_id' = NextChunkId(chunk_id)
    /\ UNCHANGED <<piiVars, slugVars, apiVars, ingestVars, pc, parseVars, turns, labelVars, include_intro, target_words,
                   overlap_turns, usable>>

\* make_chunks: the outer loop is exhausted
ChunksReturn ==
    /\ pc = "chunking"
    /\ mc_i >= Len(usable)
    /\ pc' = "done"
    /\ UNCHANGED <<piiVars, slugVars, apiVars, ingestVars, parseVars, turns, labelVars, chunkVars>>

Next ==
    \/ ParseLineShort
    \/ ParseEOF
    \/ LabelBegin
    \/ LabelTurn
    \/ LabelReturn
    \/ MakeChunksBegin
    \/ ChunkStep
    \/ ChunksReturn

Spec == Init /\ [][Next]_vars

(***************************************************************************)
(* parse_transcript alone, on longer files.                                *)
(***************************************************************************)
NextParse == ParseLine \/ ParseEOF

SpecParse == Init /\ [][NextParse]_vars

(***************************************************************************)
(* make_chunks on the labelled Turns of longer files.                      *)
(***************************************************************************)
ChunkLineSet ==
    { <<"(00:00:10)", ":", " ", "sponsored by">>,
      <<"Jane", " ", "Doe", " ", "(0:08:11)", ":", " ",
        "w", " ", "w", " ", "w", " ", "w", " ", "w", " ", "w">>,
      <<"(0:08:11)", ":", " ", "w">> }

ChunkInputs == UNION {[1..n -> ChunkLineSet] : n \in 0..MaxTurns}

InitChunks ==
    /\ lines \in ChunkInputs
    /\ redact = FALSE
    /\ LET parsed == ParseLoop(ParseInit(redact), lines)
           ls == label_sections(Flush(parsed))
       IN  /\ cur = parsed.cur
           /\ turns = ls.turns
           /\ lab_i = Len(ls.turns)
           /\ sponsor_mode = ls.sponsor_mode
           /\ sponsor_start_t = ls.sponsor_start_t
           /\ outro_mode = ls.outro_mode
           /\ section_writes = ls.writes
    /\ pc = "labeled"
    /\ include_intro = FALSE
    /\ target_words = 0
    /\ overlap_turns = 0
    /\ usable = <<>>
    /\ mc_i = 0
    /\ chunk_id = 0
    /\ chunks = <<>>
    /\ chunk_log = <<>>
    /\ pii = PiiIdle
    /\ slug = SlugIdle
    /\ ApiIdle
    /\ IngestIdle

NextChunks == MakeChunksBegin \/ ChunkStep \/ ChunksReturn

SpecChunks == InitChunks /\ [][NextChunks]_vars

(***************************************************************************)
(* parse_transcript on lines that one, both or none of the timestamp       *)
(* patterns match.                                                         *)
(***************************************************************************)
MaxClassifyLines == 3

ClassifyLineSet ==
    { <<" ">>,
      <<"(00:00:10)", ":", " ", "w", " ", "(0:08:11)", ":", " ", "w">>,
      <<" ", " ", "(0:08:11)", ":", " ", "w">>,
      <<"(00:00:10)", ":", " ", "w">>,
      <<"Jane", " ", "Doe", " ", "(00:01:05)", ":", " ", "I disagree with that.">>,
      <<"(00:00:10)", " ", "w">>,
      <<"and here's why.">> }

ParseLineClassify == ParseLineFrom(ClassifyLineSet, MaxClassifyLines)

NextClassify == ParseLineClassify \/ ParseEOF

SpecClassify == Init /\ [][NextClassify]_vars

(***************************************************************************)
(* slugify on one title.                                                   *)
(***************************************************************************)
MaxTitlePieces == 3

\* 119 characters
LongWord ==
    "aaaaaaaaaaaaaaaaaaaaaaaaaaaaaaaaaaaaaaaaaaaaaaaaaaaaaaaaaaaaaaaaaaaaaaaaaaaaaaaaaaaaaaaaaaaaaaaaaaaaaaaaaaaaaaaaaaaaaaa"

TitlePieces == {LongWord, "a", "B", " ", "-"}

Titles ==
    {Concat(ps) :
        ps \in UNION {[1..n -> TitlePieces] : n \in 0..MaxTitlePieces}}

InitSlug ==
    /\ pc = "slug"
    /\ redact = FALSE
    /\ lines = <<>>
    /\ cur = None
    /\ turns = <<>>
    /\ lab_i = 0
    /\ sponsor_mode = FALSE
    /\ sponsor_start_t = None
    /\ outro_mode = FALSE
    /\ section_writes = <<>>
    /\ include_intro = FALSE
    /\ target_words = 0
    /\ overlap_turns = 0
    /\ usable = <<>>
    /\ mc_i = 0
    /\ chunk_id = 0
    /\ chunks = <<>>
    /\ chunk_log = <<>>
    /\ pii = PiiIdle
    /\ \E title \in Titles : slug = [SlugIdle EXCEPT !.pc = "start", !.title = title]
    /\ ApiIdle
    /\ IngestIdle

\* slugify(title)
Slugify ==
    /\ slug.pc = "start"
    /\ slug' = [slug EXCEPT !.pc = "done", !.id = slugify(slug.title)]
    /\ UNCHANGED <<pc, parseVars, turns, labelVars, chunkVars, piiVars, ingestVars,
                   apiVars>>

NextSlug == Slugify

SpecSlug == InitSlug /\ [][NextSlug]_vars

(***************************************************************************)
(* label_sections on the Turns of files that mix the marker phrases.       *)
(***************************************************************************)
MaxLabelLines == 4

LabelLineSet ==
    { <<"(00:00:10)", ":", " ", "sponsored by">>,
      <<"(00:00:10)", ":", " ", "sponsored by", " ", "with that">>,
      <<"(00:01:05)", ":", " ", "with that">>,
      <<"(00:01:05)", ":", " ", "Please Subscribe", " ", "sponsored by">>,
      <<"(0:08:10)", ":", " ", "sponsored by">>,
      <<"(0:08:11)", ":", " ", "w">> }

LabelInputs == UNION {[1..n -> LabelLineSet] : n \in 0..MaxLabelLines}

InitLabel ==
    /\ lines \in LabelInputs
    /\ redact = FALSE
    /\ LET parsed == ParseLoop(ParseInit(redact), lines)
       IN  /\ cur = IF parsed.cur = None THEN None
                    ELSE Some([parsed.cur[1] EXCEPT !.text = Strip(@)])
           /\ turns = Flush(parsed)
    /\ pc = "parsed"
    /\ lab_i = 0
    /\ sponsor_mode = FALSE
    /\ sponsor_start_t = None
    /\ outro_mode = FALSE
    /\ section_writes = <<>>
    /\ include_intro = FALSE
    /\ target_words = 0
    /\ overlap_turns = 0
    /\ usable = <<>>
    /\ mc_i = 0
    /\ chunk_id = 0
    /\ chunks = <<>>
    /\ chunk_log = <<>>
    /\ pii = PiiIdle
    /\ slug = SlugIdle
    /\ ApiIdle
    /\ IngestIdle

NextLabel == LabelBegin \/ LabelTurn \/ LabelReturn

SpecLabel == InitLabel /\ [][NextLabel]_vars

(***************************************************************************)
(* detect_pii and redact_pii on one text.                                  *)
(***************************************************************************)
InitPii ==
    /\ pc = "pii"
    /\ redact = FALSE
    /\ lines = <<>>
    /\ cur = None
    /\ turns = <<>>
    /\ lab_i = 0
    /\ sponsor_mode = FALSE
    /\ sponsor_start_t = None
    /\ outro_mode = FALSE
    /\ section_writes = <<>>
    /\ include_intro = FALSE
    /\ target_words = 0
    /\ overlap_turns = 0
    /\ usable = <<>>
    /\ mc_i = 0
    /\ chunk_id = 0
    /\ chunks = <<>>
    /\ chunk_log = <<>>
    /\ \E text \in PiiTexts : pii = [PiiIdle EXCEPT !.pc = "start", !.text = text]
    /\ slug = SlugIdle
    /\ ApiIdle
    /\ IngestIdle

pipelineVars == <<pc, parseVars, turns, labelVars, chunkVars>>

\* detect_pii(text)
PiiDetect ==
    /\ pii.pc = "start"
    /\ pii' = [pii EXCEPT !.pc = "detected", !.flags = detect_pii(pii.text)]
    /\ UNCHANGED <<pipelineVars, slugVars, apiVars, ingestVars>>

\* redact_pii(text)
PiiRedact ==
    /\ pii.pc = "detected"
    /\ pii' = [pii EXCEPT !.pc = "redacted", !.redacted = redact_pii(pii.text)]
    /\ UNCHANGED <<pipelineVars, slugVars, apiVars, ingestVars>>

\* detect_pii(redact_pii(text))
PiiDetectRedacted ==
    /\ pii.pc = "redacted"
    /\ pii' = [pii EXCEPT !.pc = "done", !.flags_after = detect_pii(pii.redacted)]
    /\ UNCHANGED <<pipelineVars, slugVars, apiVars, ingestVars>>

NextPii == PiiDetect \/ PiiRedact \/ PiiDetectRedacted

SpecPii == InitPii /\ [][NextPii]_vars

(***************************************************************************)
(* ingest_folder over a directory, run twice on the same input.            *)
(***************************************************************************)
InitIngest ==
    /\ pc = "ingest"
    /\ redact \in BOOLEAN
    /\ lines = <<>>
    /\ cur = None
    /\ turns = <<>>
    /\ lab_i = 0
    /\ sponsor_mode = FALSE
    /\ sponsor_start_t = None
    /\ outro_mode = FALSE
    /\ section_writes = <<>>
    /\ include_intro \in BOOLEAN
    /\ target_words \in TargetWordsSet
    /\ overlap_turns \in OverlapSet
    /\ usable = <<>>
    /\ mc_i = 0
    /\ chunk_id = 0
    /\ chunks = <<>>
    /\ chunk_log = <<>>
    /\ pii = PiiIdle
    /\ slug = SlugIdle
    /\ ApiIdle
    /\ input_dir \in InputDirs
    /\ txt_files = <<>>
    /\ file_i = 0
    /\ f_chunks = <<>>
    /\ f_index = <<>>
    /\ f_csv = <<>>
    /\ episodes = <<>>
    /\ stats = None
    /\ all_chunks_count = 0
    /\ all_turns_count = 0
    /\ episodes_written = 0
    /\ run_no = 1
    /\ first_run = None

perFileVars == <<lines, cur, turns, labelVars, usable, mc_i, chunk_id, chunks,
                 chunk_log>>
configVars == <<redact, include_intro, target_words, overlap_turns>>

\* ingest_folder up to the loop: the files are listed and sorted, the three
\* output files are opened for writing, the manifest header is written
IngestOpen ==
    /\ pc = "ingest"
    /\ txt_files' = Sorted(DOMAIN input_dir)
    /\ all_chunks_count' = 0
    /\ all_turns_count' = 0
    /\ episodes_written' = 0
    /\ f_chunks' = OpenForWrite(f_chunks)
    /\ f_index' = OpenForWrite(f_index)
    /\ f_csv' = Append(OpenForWrite(f_csv), manifest_header)
    /\ file_i' = 0
    /\ pc' = "files"
    /\ UNCHANGED <<piiVars, slugVars, apiVars, perFileVars, configVars, input_dir, episodes, stats,
                   run_no, first_run>>

\* the chunk lines of an episode appended to chunks.jsonl
WriteChunks(file, ep) ==
    file \o [n \in DOMAIN ep.chunks[1] |-> ch_obj(ep, ep.chunks[1][n])]

\* one pass of `for fp in txt_files`; there is none when make_chunks does
\* not return
IngestFile ==
    /\ pc = "files"
    /\ file_i < Len(txt_files)
    /\ \E ep \in {EpisodeOf(txt_files[file_i + 1],
                            input_dir[txt_files[file_i + 1]], redact,
                            include_intro, target_words, overlap_turns)} :
           /\ ep.chunks # None
           /\ episodes' = WriteEpisode(episodes, ep.episode_id, episode_obj(ep))
           /\ f_index' = Append(f_index, index_obj(ep))
           /\ f_chunks' = WriteChunks(f_chunks, ep)
           /\ f_csv' = Append(f_csv, manifest_row(ep))
           /\ episodes_written' = episodes_written + 1
           /\ all_chunks_count' = all_chunks_count + Len(ep.chunks[1])
           /\ all_turns_count' = all_turns_count + Len(ep.turns)
    /\ file_i' = file_i + 1
    /\ UNCHANGED <<piiVars, slugVars, apiVars, pc, perFileVars, configVars, input_dir, txt_files,
                   stats, run_no, first_run>>

\* after the loop: stats.json is written and ingest_folder returns
IngestStats ==
    /\ pc = "files"
    /\ file_i >= Len(txt_files)
    /\ stats' = Some([episodes |-> episodes_written,
                      total_turns |-> all_turns_count,
                      total_chunks |-> all_chunks_count,
                      include_intro |-> include_intro,
                      redact_pii |-> redact,
                      target_words |-> target_words,
                      overlap_turns |-> overlap_turns])
    /\ pc' = "ingested"
    /\ UNCHANGED <<piiVars, slugVars, apiVars, perFileVars, configVars, input_dir, txt_files,
                   file_i, f_chunks, f_index, f_csv, episodes,
                   all_chunks_count, all_turns_count, episodes_written, run_no,
                   first_run>>

\* the same command is run again on the same input and output directories
IngestAgain ==
    /\ pc = "ingested"
    /\ run_no = 1
    /\ first_run' = Some([f_chunks |-> f_chunks, f_index |-> f_index,
                          f_csv |-> f_csv, episodes |-> episodes,
                          stats |-> stats])
    /\ run_no' = 2
    /\ pc' = "ingest"
    /\ UNCHANGED <<piiVars, slugVars, apiVars, perFileVars, configVars, input_dir, txt_files,
                   file_i, outputFiles, all_chunks_count, all_turns_count,
                   episodes_written>>

NextIngest == IngestOpen \/ IngestFile \/ IngestStats \/ IngestAgain

SpecIngest == InitIngest /\ [][NextIngest]_vars

(***************************************************************************)
(* Properties.                                                             *)
(***************************************************************************)
IsBlankLine(line) == \A n \in DOMAIN line : line[n] \in {" ", "\n"}

\* the input lines that match one of the two timestamp patterns
TimestampLineSet ==
    {line \in LineSet \cup ChunkLineSet :
        ~IsBlankLine(line) /\ (RE_SPEAKER_TS(line) # None \/ RE_TS_ONLY(line) # None)}

IsTimestampLine(line) == line \in TimestampLineSet

IsContinuationLine(line) == ~IsBlankLine(line) /\ ~IsTimestampLine(line)

\* the text after the colon of a timestamp line, trimmed
Remainders ==
    [line \in TimestampLineSet |->
        Strip((IF RE_SPEAKER_TS(line) # None
               THEN RE_SPEAKER_TS(line) ELSE RE_TS_ONLY(line))[1].rest)]

RemainderOf(line) == Remainders[line]

TimestampLineCount == Cardinality({n \in DOMAIN lines : IsTimestampLine(lines[n])})

\* the first non-blank line of the file is a continuation line
OpensWithContinuation ==
    \E n \in DOMAIN lines :
        /\ IsContinuationLine(lines[n])
        /\ \A k \in 1..(n - 1) : IsBlankLine(lines[k])

\* C1: parse_transcript returns one Turn per timestamp line (an empty
\* remainder included), plus one synthetic leading Turn exactly when the first
\* non-blank line is a continuation line; nothing else, nothing dropped.
C1_TurnCount ==
    pc = "parsed" =>
        Len(turns) = TimestampLineCount + (IF OpensWithContinuation THEN 1 ELSE 0)

C1_Witness ==
    /\ pc = "parsed"
    /\ OpensWithContinuation
    /\ \E n \in DOMAIN lines :
          IsTimestampLine(lines[n]) /\ RemainderOf(lines[n]) = <<>>
    /\ TimestampLineCount = 2
    /\ Len(turns) = 3

\* the number of Turns label_sections has labelled so far
LabelledCount == IF pc \in {"parse", "parsed"} THEN 0 ELSE lab_i

\* C2: once a Turn is labelled outro, every later Turn is labelled outro,
\* whatever its text and timestamp, and outro_mode stays set.
C2_OutroLatch ==
    /\ \A a \in 1..LabelledCount : \A b \in (a + 1)..LabelledCount :
          turns[a].section_type = "outro" => turns[b].section_type = "outro"
    /\ (\E a \in 1..LabelledCount : turns[a].section_type = "outro") => outro_mode

C2_Witness ==
    /\ pc = "labeled"
    /\ \E a \in 1..Len(turns) : \E b \in (a + 1)..Len(turns) :
          /\ turns[a].section_type = "outro"
          /\ \E n \in DOMAIN turns[b].text : turns[b].text[n] = "sponsored by"
          /\ turns[b].t < turns[a].t
          /\ turns[b].section_type = "outro"

\* C3: the start indices of consecutive chunks strictly increase, for every
\* target_words and overlap_turns.
C3_StartsIncrease ==
    \A n \in 1..(Len(chunk_log) - 1) :
        chunk_log[n + 1].start_i > chunk_log[n].start_i

\* C4: every iteration of the outer loop of make_chunks moves the start index
\* strictly forward, so the loop terminates for every target_words and every
\* overlap_turns >= 0.
C4_ForwardProgress ==
    [][(pc = "chunking" /\ chunk_id' = chunk_id + 1) => mc_i' > mc_i]_vars

\* C5: every chunk but the last of the episode holds at least target_words
\* words, for every overlap_turns.
C5_NonFinalChunksFull ==
    \A n \in 1..(Len(chunk_log) - 1) : chunk_log[n].words >= target_words

RECURSIVE UsableWords(_)
UsableWords(us) ==
    IF us = <<>> THEN 0
    ELSE word_count(turns[Head(us)].text) + UsableWords(Tail(us))

\* C6: a non-empty usable sequence with fewer than target_words words gives
\* exactly one chunk holding every usable Turn; an empty one gives no chunk.
C6_ShortEpisodeOneChunk ==
    pc = "done" =>
        /\ usable = <<>> => chunks = <<>>
        /\ (usable # <<>> /\ UsableWords(usable) < target_words) =>
              /\ Len(chunks) = 1
              /\ chunk_log[1].start_i = 0
              /\ chunk_log[1].end_i = Len(usable) - 1

\* four usable conversation Turns of 6 words each, target 10, overlap 1
C7_Scenario ==
    /\ target_words = 10
    /\ overlap_turns = 1
    /\ Len(usable) = 4
    /\ \A n \in 1..4 :
          /\ turns[usable[n]].section_type = "conversation"
          /\ word_count(turns[usable[n]].text) = 6

\* C7: in that scenario the chunks start at usable indices 0, 1, 2 and hold
\* two Turns each.
C7_ScenarioChunks ==
    (pc = "done" /\ C7_Scenario) =>
        /\ Len(chunk_log) = 3
        /\ \A n \in 1..3 :
              chunk_log[n].start_i = n - 1 /\ chunk_log[n].end_i = n

\* C8: every Turn read for a chunk is a conversation Turn (or an intro Turn
\* when include_intro is set) with non-empty trimmed text that is neither
\* elided nor an ellipsis token.
C8_OnlyUsableTurnsInChunks ==
    \A n \in DOMAIN chunk_log : \A k \in chunk_log[n].read :
        /\ k \in DOMAIN turns
        /\ turns[k].section_type = "conversation"
           \/ (include_intro /\ turns[k].section_type = "intro")
        /\ Strip(turns[k].text) # <<>>
        /\ ~turns[k].is_elided
        /\ Strip(turns[k].text) # <<"...">>
        /\ chunks[n].t_start \in {turns[j].t : j \in chunk_log[n].read}
        /\ chunks[n].t_end \in {turns[j].t : j \in chunk_log[n].read}

C8_Witness ==
    /\ pc = "done"
    /\ include_intro
    /\ Len(chunks) = 1
    /\ Len(turns) = 3
    /\ turns[1].is_elided
    /\ turns[1].section_type = "intro"
    /\ turns[2].section_type = "sponsor"
    /\ chunk_log[1].read = {3}

EllipsisOnlyFile == <<(<<"(00:00:10)", ":", " ", "...">>)>>

\* C9 as stated: the file `(00:00:10): ...` gives one Turn with is_elided
\* true and text "" (empty), and no chunk with include_intro off or on.
C9_EmptyText ==
    (lines = EllipsisOnlyFile /\ pc \notin {"parse"}) =>
        /\ Len(turns) = 1
        /\ turns[1].is_elided
        /\ turns[1].text = <<>>
        /\ pc = "done" => chunks = <<>>

\* C9: the file `(00:00:10): ...` gives one Turn with is_elided true and the
\* ellipsis as its text, and no chunk with include_intro off or on.
C9_EllipsisText ==
    (lines = EllipsisOnlyFile /\ pc \notin {"parse"}) =>
        /\ Len(turns) = 1
        /\ turns[1].is_elided
        /\ turns[1].text = <<"...">>
        /\ turns[1].speaker = None
        /\ turns[1].t = 10
        /\ pc = "done" => chunks = <<>>

C9_Witness ==
    /\ lines = EllipsisOnlyFile
    /\ pc = "done"
    /\ include_intro
    /\ turns[1].section_type = "intro"

\* lines is a timestamp line with a remainder, k blank lines, a continuation
C10_Shape(k) ==
    /\ Len(lines) = k + 2
    /\ IsTimestampLine(lines[1])
    /\ RemainderOf(lines[1]) # <<>>
    /\ \A n \in 2..(k + 1) : IsBlankLine(lines[n])
    /\ IsContinuationLine(lines[k + 2])

JaneDoeLine ==
    <<"Jane", " ", "Doe", " ", "(00:01:05)", ":", " ", "I disagree with that.">>

\* C10: a timestamp line with a remainder, blank lines, then a continuation
\* line give one Turn whose text is remainder, one newline, continuation
\* (each redacted when redact is set); without a blank line the two are joined
\* by one space.
C10_ParagraphBreak ==
    pc = "parsed" =>
        /\ \A k \in 0..MaxLines :
              C10_Shape(k) =>
                 /\ Len(turns) = 1
                 /\ turns[1].text =
                       RedactText(redact, RemainderOf(lines[1]))
                       \o (IF k = 0 THEN <<" ">> ELSE <<"\n">>)
                       \o RedactText(redact, Strip(lines[k + 2]))
        /\ (C10_Shape(1) /\ lines[1] = JaneDoeLine /\ lines[3] = <<"and here's why.">>) =>
              /\ turns[1].speaker = Some(<<"Jane", " ", "Doe">>)
              /\ turns[1].t = 65
              /\ turns[1].text = <<"I disagree with that.", "\n", "and here's why.">>

C10_Witness ==
    /\ pc = "parsed"
    /\ C10_Shape(2)
    /\ lines[1] = JaneDoeLine
    /\ turns[1].text = <<"I disagree with that.", "\n", "and here's why.">>

(***************************************************************************)
(* detect_pii and redact_pii.                                              *)
(***************************************************************************)
\* C12: after redaction nothing is left to detect: detect_pii applied to
\* redact_pii(text) returns no flag
C12_RedactedIsClean ==
    pii.pc = "done" => pii.flags_after = <<>>

\* the number of occurrences of token in s
CountToken(s, token) ==
    Cardinality({p \in 1..Len(s) :
        /\ p + Len(token) - 1 <= Len(s)
        /\ SubSeq(s, p, p + Len(token) - 1) = token})

FlagsOfType(flags, type) == SelectSeq(flags, LAMBDA f : f.type = type)

\* C13: redact_pii replaces exactly what detect_pii reports: the redacted
\* text holds one email token per email flag and one phone token per phone
\* flag of the same text
C13_SameSpans ==
    pii.pc \in {"redacted", "done"} =>
        /\ CountToken(pii.redacted, REDACTED_EMAIL)
               = Len(FlagsOfType(pii.flags, "email"))
        /\ CountToken(pii.redacted, REDACTED_PHONE)
               = Len(FlagsOfType(pii.flags, "phone"))

(***************************************************************************)
(* The chunk records of make_chunks.                                       *)
(***************************************************************************)
\* C14: the chunk_ids emitted for one episode are 0, 1, ..., n-1 in emission
\* order
C14_ChunkIdsConsecutive ==
    \A n \in DOMAIN chunks : chunks[n].chunk_id = n - 1

C14_Witness ==
    /\ pc = "done"
    /\ Len(chunks) >= 3

\* C15: every chunk is built from a non-empty contiguous run of usable:
\* t_start and t_end are the timestamps of the first and last Turn of the run,
\* speakers is the set of their labels and text is their rendered lines in
\* order
C15_ChunkFromRun ==
    \A n \in DOMAIN chunks :
        LET first == chunk_log[n].start_i
            last == chunk_log[n].end_i
            run == [k \in 1..(last - first + 1) |-> turns[usable[first + k]]]
        IN  /\ last >= first
            /\ chunks[n].t_start = run[1].t
            /\ chunks[n].t_end = run[Len(run)].t
            /\ chunks[n].speakers = {SpeakerLabel(run[k]) : k \in DOMAIN run}
            /\ chunks[n].text = Strip(JoinLines([k \in DOMAIN run |-> Render(run[k])]))

(***************************************************************************)
(* Turns after parse_transcript.                                           *)
(***************************************************************************)
\* ts with every section_type put back to the constructor's default
Unlabelled(ts) == [n \in DOMAIN ts |-> [ts[n] EXCEPT !.section_type = "unknown"]]

AfterParse == {"parsed", "label", "labeled", "chunking", "done"}

\* C18: once parse_transcript has returned, no step changes the Turn
\* sequence in anything but section_type (same length, same order, same
\* speaker, t, text, is_elided and pii_flags), and from the return of
\* label_sections on no step changes a Turn at all
C18_OnlySectionTypeChanges ==
    [][/\ pc \in AfterParse => Unlabelled(turns') = Unlabelled(turns)
       /\ pc \in {"labeled", "chunking", "done"} => turns' = turns]_vars

C18_Witness ==
    /\ pc = "done"
    /\ Len(turns) = 3
    /\ \E n \in DOMAIN turns : turns[n].section_type = "sponsor"
    /\ \E n \in DOMAIN turns : turns[n].is_elided
    /\ \E n \in DOMAIN turns : turns[n].pii_flags # None

SectionTypes == {"intro", "sponsor", "conversation", "outro"}

\* C19 as stated: every Turn starts unknown, ends with one of the four
\* labels, and section_type is assigned exactly once per Turn
C19_AssignedOnce ==
    /\ pc \in {"parse", "parsed"} =>
           \A n \in DOMAIN turns : turns[n].section_type = "unknown"
    /\ pc \in {"labeled", "chunking", "done"} =>
           \A n \in DOMAIN turns :
               /\ turns[n].section_type \in SectionTypes
               /\ Len(section_writes[n]) = 1

\* the Turns of ts up to the k-th are labelled by assignments ws and the
\* later ones are untouched
LabelledUpTo(ts, ws, k) ==
    \A n \in DOMAIN ts :
        IF n > k
        THEN ts[n].section_type = "unknown" /\ ws[n] = <<>>
        ELSE /\ ws[n] \in {<<l>> : l \in SectionTypes}
                          \cup {<<"sponsor", "conversation">>}
             /\ ts[n].section_type = ws[n][Len(ws[n])]

\* C19: every Turn starts unknown; the loop of label_sections assigns
\* section_type to Turn i in iteration i only (once, or twice as sponsor then
\* conversation on the Turn that ends a sponsor block) and never again; after
\* label_sections every Turn carries one of the four labels
C19_LabelledInOwnIteration ==
    [][/\ pc' \in {"parse", "parsed"} =>
              \A n \in DOMAIN turns' : turns'[n].section_type = "unknown"
       /\ pc' \in {"label", "labeled", "chunking", "done"} =>
              LabelledUpTo(turns', section_writes', lab_i')
       /\ pc' \in {"labeled", "chunking", "done"} => lab_i' = Len(turns')
       /\ pc \in {"label", "labeled", "chunking", "done"} =>
              \A n \in 1..lab_i :
                  /\ section_writes'[n] = section_writes[n]
                  /\ turns'[n].section_type = turns[n].section_type]_vars

C19_Witness ==
    /\ pc = "labeled"
    /\ Len(turns) = 3
    /\ \E n \in DOMAIN turns : section_writes[n] = <<"sponsor", "conversation">>
    /\ \E n \in DOMAIN turns : section_writes[n] = <<"intro">>

(***************************************************************************)
(* is_elided.                                                              *)
(***************************************************************************)
\* the Turns built from the lines consumed so far: the flushed ones and cur
TurnsSoFar ==
    IF pc = "parse" /\ cur # None THEN Append(turns, cur[1]) ELSE turns

\* the indices of the lines that start a Turn: every timestamp line, and a
\* continuation line that has only blank lines before it
StartLines ==
    SelectSeq([n \in DOMAIN lines |-> n],
              LAMBDA n : \/ IsTimestampLine(lines[n])
                         \/ /\ IsContinuationLine(lines[n])
                            /\ \A k \in 1..(n - 1) : IsBlankLine(lines[k]))

\* the index of the last line merged into the k-th Turn
LastLineOf(k) ==
    IF k < Len(StartLines) THEN StartLines[k + 1] - 1 ELSE Len(lines)

\* C20: at every point of the parse a Turn is elided exactly when it was
\* started by a timestamp line with an empty or ellipsis remainder and every
\* continuation line merged into it so far is an ellipsis; so a Turn that has
\* received real content is not elided and stays so
C20_ElidedIff ==
    pc \in {"parse", "parsed"} =>
        /\ Len(TurnsSoFar) = Len(StartLines)
        /\ \A k \in DOMAIN TurnsSoFar :
              TurnsSoFar[k].is_elided <=>
                  /\ IsTimestampLine(lines[StartLines[k]])
                  /\ RemainderOf(lines[StartLines[k]]) \in {<<>>, <<"...">>}
                  /\ \A j \in (StartLines[k] + 1)..LastLineOf(k) :
                        IsContinuationLine(lines[j]) => Strip(lines[j]) = <<"...">>

C20_Witness ==
    /\ pc = "parsed"
    /\ Len(lines) = 4
    /\ Len(turns) = 2
    /\ turns[1].is_elided
    /\ IsContinuationLine(lines[2])
    /\ ~turns[2].is_elided
    /\ IsTimestampLine(lines[3])
    /\ RemainderOf(lines[3]) = <<>>
    /\ IsContinuationLine(lines[4])

(***************************************************************************)
(* The output files of ingest_folder.                                      *)
(***************************************************************************)
\* the number of input files
FileCount == Cardinality(DOMAIN input_dir)

\* the chunk lines of chunks.jsonl that come from the file name
ChunkLinesOf(name) == SelectSeq(f_chunks, LAMBDA c : c.source_file = name)

\* C11: a second run on the same files with the same four options leaves
\* chunks.jsonl and episodes_index.jsonl exactly as the first run left them,
\* and the lines of each file are those of that file processed on its own
C11_RerunIdentical ==
    pc = "ingested" =>
        /\ run_no = 2 =>
               /\ f_chunks = first_run[1].f_chunks
               /\ f_index = first_run[1].f_index
        /\ \A k \in DOMAIN f_index :
               \A alone \in {EpisodeOf(txt_files[k], input_dir[txt_files[k]],
                                         redact, include_intro, target_words,
                                         overlap_turns)} :
                   /\ f_index[k] = index_obj(alone)
                   /\ ChunkLinesOf(txt_files[k])
                          = [n \in DOMAIN alone.chunks[1] |->
                                 ch_obj(alone, alone.chunks[1][n])]

C11_Witness ==
    /\ pc = "ingested"
    /\ run_no = 2
    /\ Len(f_index) = 2
    /\ Len(f_chunks) >= 3
    /\ f_index[1].episode_id # f_index[2].episode_id

RECURSIVE SumChunkCounts(_)
SumChunkCounts(index) ==
    IF index = <<>> THEN 0
    ELSE Head(index).chunk_count + SumChunkCounts(Tail(index))

RECURSIVE SumTurnCounts(_)
SumTurnCounts(index) ==
    IF index = <<>> THEN 0
    ELSE Head(index).turn_count + SumTurnCounts(Tail(index))

\* the source_file column chunks.jsonl must show for the index lines given:
\* each file's name once per chunk, file after file
RECURSIVE GroupedSources(_)
GroupedSources(index) ==
    IF index = <<>> THEN <<>>
    ELSE [n \in 1..Head(index).chunk_count |-> Head(index).source_file]
         \o GroupedSources(Tail(index))

\* C16: after a completed run over N files the index has N lines and the
\* manifest N data rows, both in sorted file name order; chunks.jsonl has the
\* sum of the chunk counts as its number of lines, grouped by episode in that
\* order; stats.json reports N episodes and the sums of turns and chunks
C16_OutputCounts ==
    pc = "ingested" =>
        /\ Len(f_index) = FileCount
        /\ Len(f_csv) = FileCount + 1
        /\ {f_index[k].source_file : k \in DOMAIN f_index} = DOMAIN input_dir
        /\ \A k \in DOMAIN f_index :
               /\ f_csv[k + 1].source_file = f_index[k].source_file
               /\ f_csv[k + 1].turns = f_index[k].turn_count
               /\ f_csv[k + 1].chunks = f_index[k].chunk_count
               /\ k > 1 => StrLess(Explode(f_index[k - 1].source_file),
                                   Explode(f_index[k].source_file))
        /\ Len(f_chunks) = SumChunkCounts(f_index)
        /\ [n \in DOMAIN f_chunks |-> f_chunks[n].source_file]
               = GroupedSources(f_index)
        /\ stats # None
        /\ stats[1].episodes = FileCount
        /\ stats[1].total_turns = SumTurnCounts(f_index)
        /\ stats[1].total_chunks = SumChunkCounts(f_index)

C16_Witness ==
    /\ pc = "ingested"
    /\ FileCount = 2
    /\ f_index[1].source_file = "C.txt"
    /\ f_index[1].chunk_count = 2
    /\ f_index[2].chunk_count = 1
    /\ stats[1].total_turns = 5

\* the index lines that carry the episode_id id
IndexLinesOf(id) == {k \in DOMAIN f_index : f_index[k].episode_id = id}

\* C17: two files with the same episode_id are both processed; the file
\* episodes/<episode_id>.json holds the later file's name and Turns only,
\* while the index, the manifest and chunks.jsonl keep the entries of both
C17_CollisionOverwrites ==
    pc = "ingested" =>
        /\ Len(f_index) = FileCount
        /\ DOMAIN episodes = {f_index[k].episode_id : k \in DOMAIN f_index}
        /\ \A id \in DOMAIN episodes :
               LET last == CHOOSE k \in IndexLinesOf(id) :
                               \A j \in IndexLinesOf(id) : j <= k
                   fp == txt_files[last]
               IN  /\ episodes[id].source_file = fp
                   /\ Unlabelled(episodes[id].turns)
                          = parse_transcript(input_dir[fp], redact)
        /\ \A k \in DOMAIN f_index :
               /\ f_index[k].source_file = txt_files[k]
               /\ f_csv[k + 1].episode_id = f_index[k].episode_id
               /\ f_csv[k + 1].source_file = txt_files[k]
               /\ Len(ChunkLinesOf(txt_files[k])) = f_index[k].chunk_count
               /\ \A n \in DOMAIN ChunkLinesOf(txt_files[k]) :
                      ChunkLinesOf(txt_files[k])[n].episode_id
                          = f_index[k].episode_id

C17_Witness ==
    /\ pc = "ingested"
    /\ run_no = 1
    /\ FileCount = 2
    /\ DOMAIN episodes = {"a-b"}
    /\ f_index[1].chunk_count >= 1
    /\ f_index[2].chunk_count >= 1
    /\ f_index[1].turn_count # f_index[2].turn_count

(***************************************************************************)
(* pii_flags of the parsed Turns.                                          *)
(***************************************************************************)
\* the text a line contributes to its Turn: the trimmed remainder of a
\* timestamp line, the trimmed line otherwise
LineContent(line) ==
    IF IsTimestampLine(line) THEN RemainderOf(line) ELSE Strip(line)

\* the flags detected in the text a line contributes, redacted or not
LineFlags ==
    [rdct \in BOOLEAN |->
        [line \in LineSet \cup ChunkLineSet |->
            detect_pii(Concat(RedactText(rdct, LineContent(line))))]]

\* the flags of lines[a..b], in line order
RECURSIVE FlagsOfLines(_, _)
FlagsOfLines(a, b) ==
    IF a > b THEN <<>>
    ELSE LineFlags[redact][lines[a]] \o FlagsOfLines(a + 1, b)

\* C21: the pii_flags of every emitted Turn are absent or a non-empty list,
\* never an empty list; when present they are the flags detected in the
\* remainder of the Turn's timestamp line followed by those of each
\* continuation line merged into the Turn, in line order
C21_PiiFlagsConcatenated ==
    pc \in {"parse", "parsed"} =>
        \A k \in DOMAIN turns :
            /\ turns[k].pii_flags # Some(<<>>)
            /\ \A flags \in {FlagsOfLines(StartLines[k], LastLineOf(k))} :
                  turns[k].pii_flags = (IF flags = <<>> THEN None ELSE Some(flags))

C21_Witness ==
    /\ pc = "parsed"
    /\ Len(lines) = 4
    /\ Len(turns) = 2
    /\ turns[1].pii_flags = None
    /\ IsTimestampLine(lines[3])
    /\ IsContinuationLine(lines[4])
    /\ turns[2].pii_flags # None
    /\ Len(turns[2].pii_flags[1]) = 2
    /\ turns[2].pii_flags[1][1].type = "email"
    /\ turns[2].pii_flags[1][2].type = "phone"

(***************************************************************************)
(* The rules of label_sections.                                            *)
(***************************************************************************)
\* the step is one iteration of the labelling loop
IsLabelTurn == pc = "label" /\ lab_i' = lab_i + 1

\* the Turn the next iteration labels contains one of the phrases
NextTurnHas(phrases) == AnyIn(phrases, Lower(turns[lab_i + 1].text))

\* the label the iteration leaves on its Turn
NewLabel == turns'[lab_i + 1].section_type

\* C22: the rules apply first-match-wins in the order outro latch, outro
\* marker, sponsor start, sponsor mode, plain content: a Turn with an outro
\* marker is labelled outro even with a sponsor-start phrase or in sponsor
\* mode, and the Turn that enters sponsor mode is labelled sponsor even with
\* a sponsor-transition phrase
C22_FirstMatchWins ==
    [][IsLabelTurn =>
        IF outro_mode THEN NewLabel = "outro" /\ outro_mode'
        ELSE IF NextTurnHas(OUTRO_MARKERS)
        THEN NewLabel = "outro" /\ outro_mode' /\ sponsor_mode' = sponsor_mode
        ELSE IF ~sponsor_mode /\ NextTurnHas(SPONSOR_START)
        THEN NewLabel = "sponsor" /\ sponsor_mode' /\ ~outro_mode'
        ELSE IF sponsor_mode
        THEN NewLabel \in {"sponsor", "conversation"} /\ ~outro_mode'
        ELSE /\ NewLabel \in {"intro", "conversation"}
             /\ ~outro_mode' /\ ~sponsor_mode']_vars

C22_Witness ==
    /\ pc = "labeled"
    /\ Len(turns) = 2
    /\ AnyIn(SPONSOR_START, Lower(turns[1].text))
    /\ AnyIn(SPONSOR_TRANSITION, Lower(turns[1].text))
    /\ turns[1].section_type = "sponsor"
    /\ AnyIn(OUTRO_MARKERS, Lower(turns[2].text))
    /\ AnyIn(SPONSOR_START, Lower(turns[2].text))
    /\ turns[2].section_type = "outro"
    /\ sponsor_mode
    /\ outro_mode

PlainLabel ==
    IF lab_i = 0 THEN "intro"
    ELSE IF \E n \in 1..lab_i : turns[n].section_type = "sponsor"
         THEN "conversation" ELSE "intro"

\* C24 as stated: a Turn with no outro marker, no sponsor-start phrase and
\* sponsor mode off is labelled intro when it is the first Turn, otherwise
\* conversation when an earlier Turn is labelled sponsor and intro when none is
C24_PlainContentAnyLatch ==
    [][(/\ IsLabelTurn
        /\ ~NextTurnHas(OUTRO_MARKERS)
        /\ ~NextTurnHas(SPONSOR_START)
        /\ ~sponsor_mode) => NewLabel = PlainLabel]_vars

\* C24: a Turn reached with the outro latch off and sponsor mode off, with
\* no outro marker and no sponsor-start phrase, is labelled intro when it is
\* the first Turn, otherwise conversation when an earlier Turn is labelled
\* sponsor and intro when none is
C24_PlainContent ==
    [][(/\ IsLabelTurn
        /\ ~outro_mode
        /\ ~NextTurnHas(OUTRO_MARKERS)
        /\ ~NextTurnHas(SPONSOR_START)
        /\ ~sponsor_mode) => NewLabel = PlainLabel]_vars

C24_Witness ==
    /\ pc = "labeled"
    /\ Len(turns) = 4
    /\ turns[1].section_type = "intro"
    /\ turns[2].section_type = "sponsor"
    /\ turns[3].section_type = "conversation"
    /\ section_writes[3] = <<"sponsor", "conversation">>
    /\ turns[4].text = <<"w">>
    /\ turns[4].section_type = "conversation"
    /\ section_writes[4] = <<"conversation">>
    /\ ~sponsor_mode
    /\ ~outro_mode

(***************************************************************************)
(* The whitespace of the parsed texts.                                     *)
(***************************************************************************)
\* text neither starts nor ends with whitespace and has no two newlines in
\* a row
CleanText(text) ==
    /\ text # <<>> => text[1] \notin {" ", "\n"} /\ text[Len(text)] \notin {" ", "\n"}
    /\ \A n \in 1..(Len(text) - 1) : ~(text[n] = "\n" /\ text[n + 1] = "\n")

\* the step reads a blank line
IsBlankStep ==
    /\ pc = "parse"
    /\ Len(lines') = Len(lines) + 1
    /\ IsBlankLine(lines'[Len(lines')])

\* C25: the text of every emitted Turn has no leading or trailing whitespace
\* and no two consecutive newlines; a blank line emits nothing and changes
\* the current Turn at most by one appended newline, and only when the Turn
\* exists and its text does not already end in a newline
C25_CleanTexts ==
    [][/\ \A k \in DOMAIN turns' : CleanText(turns'[k].text)
       /\ IsBlankStep =>
              /\ turns' = turns
              /\ cur' # cur =>
                     /\ cur # None
                     /\ ~EndsWithNewline(cur[1].text)
                     /\ cur' = Some([cur[1] EXCEPT !.text = Append(@, "\n")])]_vars

C25_Witness ==
    /\ pc = "parsed"
    /\ Len(lines) = 4
    /\ IsTimestampLine(lines[1])
    /\ IsBlankLine(lines[2])
    /\ IsBlankLine(lines[3])
    /\ IsBlankLine(lines[4])
    /\ Len(turns) = 1
    /\ turns[1].text # <<>>
    /\ cur # None
    /\ CountToken(turns[1].text, <<"\n">>) = 0

(***************************************************************************)
(* The synthetic Turn of a file that opens with narration.                 *)
(***************************************************************************)
\* the tokens of text that are not whitespace
NonSpace(text) == SelectSeq(text, LAMBDA tok : tok \notin {" ", "\n"})

\* the tokens a line contributes to its Turn, redacted or not
LineTokens ==
    [rdct \in BOOLEAN |->
        [line \in LineSet \cup ChunkLineSet |->
            NonSpace(RedactText(rdct, LineContent(line)))]]

\* the contents of the continuation lines among lines[a..b], in order
RECURSIVE ContentsOf(_, _)
ContentsOf(a, b) ==
    IF a > b THEN <<>>
    ELSE LineTokens[redact][lines[a]] \o ContentsOf(a + 1, b)

\* the step reads a continuation line
IsContinuationStep ==
    /\ pc = "parse"
    /\ Len(lines') = Len(lines) + 1
    /\ IsContinuationLine(lines'[Len(lines')])

\* C26: a continuation line creates a Turn (speaker absent, t = 0) exactly
\* when only blank lines came before it, and is merged into the current Turn
\* otherwise; a file whose first non-blank line is a continuation line has
\* as first emitted Turn that synthetic Turn with the leading continuation
\* lines as text
C26_SyntheticTurn ==
    [][/\ IsContinuationStep =>
              /\ turns' = turns
              /\ cur' # None
              /\ IF \A n \in DOMAIN lines : IsBlankLine(lines[n])
                 THEN /\ cur = None
                      /\ turns = <<>>
                      /\ cur'[1].speaker = None
                      /\ cur'[1].t = 0
                 ELSE /\ cur # None
                      /\ cur'[1].speaker = cur[1].speaker
                      /\ cur'[1].t = cur[1].t
       /\ (pc' = "parsed" /\ OpensWithContinuation) =>
              /\ turns'[1].speaker = None
              /\ turns'[1].t = 0
              /\ NonSpace(turns'[1].text) = ContentsOf(1, LastLineOf(1))]_vars

C26_Witness ==
    /\ pc = "parsed"
    /\ Len(lines) = 4
    /\ IsBlankLine(lines[1])
    /\ IsContinuationLine(lines[2])
    /\ IsContinuationLine(lines[3])
    /\ IsTimestampLine(lines[4])
    /\ Len(turns) = 2
    /\ turns[1].speaker = None
    /\ turns[1].t = 0
    /\ Len(NonSpace(turns[1].text)) = 2
    /\ turns[2].t > 0

(***************************************************************************)
(* The classification of a line.                                           *)
(***************************************************************************)
\* the Turn a timestamp line starts, from the match object m
StartsTurnFrom(m, speaker) ==
    /\ cur' # None
    /\ cur'[1].speaker = speaker
    /\ cur'[1].t = ts_to_seconds(m.h, m.m, m.s)
    /\ cur'[1].text = RedactText(redact, Strip(m.rest))
    /\ turns' = (IF cur = None THEN turns
                 ELSE Append(turns, [cur[1] EXCEPT !.text = Strip(@)]))

\* C27: a non-blank line that RE_SPEAKER_TS matches starts a Turn with the
\* speaker, time and remainder of that match, also when RE_TS_ONLY matches
\* too; a line only RE_TS_ONLY matches starts a Turn with speaker absent;
\* any other non-blank line is merged as a continuation (into a synthetic
\* Turn when none is open) and emits nothing
C27_ClassificationOrder ==
    [][(/\ pc = "parse"
        /\ Len(lines') = Len(lines) + 1
        /\ ~IsBlankLine(lines'[Len(lines')])) =>
            \A line \in {lines'[Len(lines')]} :
                IF RE_SPEAKER_TS(line) # None
                THEN StartsTurnFrom(RE_SPEAKER_TS(line)[1],
                                    Some(Strip(RE_SPEAKER_TS(line)[1].speaker)))
                ELSE IF RE_TS_ONLY(line) # None
                THEN StartsTurnFrom(RE_TS_ONLY(line)[1], None)
                ELSE /\ turns' = turns
                     /\ cur' # None
                     /\ cur'[1].t = (IF cur = None THEN 0 ELSE cur[1].t)
                     /\ cur'[1].speaker = (IF cur = None THEN None ELSE cur[1].speaker)
                     /\ Len(cur'[1].text) >= Len(Strip(line))
                     /\ SubSeq(cur'[1].text,
                               Len(cur'[1].text) - Len(Strip(line)) + 1,
                               Len(cur'[1].text)) = Strip(line)]_vars

C27_Witness ==
    /\ pc = "parsed"
    /\ Len(lines) = 3
    /\ RE_SPEAKER_TS(lines[1]) # None
    /\ RE_TS_ONLY(lines[1]) # None
    /\ RE_TS_ONLY(lines[1])[1].s # RE_SPEAKER_TS(lines[1])[1].s
    /\ RE_SPEAKER_TS(lines[2]) = None
    /\ RE_TS_ONLY(lines[2]) # None
    /\ ~IsBlankLine(lines[3])
    /\ RE_SPEAKER_TS(lines[3]) = None
    /\ RE_TS_ONLY(lines[3]) = None
    /\ Len(turns) = 2
    /\ turns[1].speaker = Some(<<"(00:00:10)", ":", " ", "w">>)
    /\ turns[1].t = 491
    /\ turns[1].text = <<"w">>
    /\ turns[2].speaker = None
    /\ turns[2].text = <<"w", " ", "(00:00:10)", " ", "w">>

(***************************************************************************)
(* The order of the flags of detect_pii.                                   *)
(***************************************************************************)
\* the flags of the spans of one type, in the order of the spans
FlagsOfSpans(s, type, spans) ==
    [n \in DOMAIN spans |-> [type |-> type, value |-> SpanText(s, spans[n])]]

\* the email spans es and phone spans ps of s merged by start position;
\* emailFirst decides between an email and a phone that start together
RECURSIVE MergeByStart(_, _, _, _)
MergeByStart(s, es, ps, emailFirst) ==
    IF es = <<>> THEN FlagsOfSpans(s, "phone", ps)
    ELSE IF ps = <<>> THEN FlagsOfSpans(s, "email", es)
    ELSE IF es[1][1] < ps[1][1] \/ (es[1][1] = ps[1][1] /\ emailFirst)
    THEN FlagsOfSpans(s, "email", <<es[1]>>) \o MergeByStart(s, Tail(es), ps, emailFirst)
    ELSE FlagsOfSpans(s, "phone", <<ps[1]>>) \o MergeByStart(s, es, Tail(ps), emailFirst)

\* the spans are in left-to-right order and do not overlap
LeftToRight(spans) ==
    \A n \in 1..(Len(spans) - 1) : spans[n][2] < spans[n + 1][1]

\* C28 as stated: the flags are the email and phone occurrences of the text
\* in the order of their position in the text
C28_OrderedByPosition ==
    pii.pc \in {"detected", "redacted", "done"} =>
        \E emailFirst \in BOOLEAN :
            pii.flags = MergeByStart(pii.text, EmailSpans(pii.text, 1),
                                     AcceptedPhoneSpans(pii.text), emailFirst)

\* C28: the flags are the email occurrences of the text in left-to-right
\* order followed by its phone occurrences in left-to-right order
C28_EmailsThenPhones ==
    pii.pc \in {"detected", "redacted", "done"} =>
        /\ LeftToRight(EmailSpans(pii.text, 1))
        /\ LeftToRight(AcceptedPhoneSpans(pii.text))
        /\ pii.flags = FlagsOfSpans(pii.text, "email", EmailSpans(pii.text, 1))
                       \o FlagsOfSpans(pii.text, "phone", AcceptedPhoneSpans(pii.text))

C28_Witness ==
    /\ pii.pc = "detected"
    /\ Len(pii.flags) = 2
    /\ pii.flags[1].type = "email"
    /\ pii.flags[2].type = "phone"
    /\ AcceptedPhoneSpans(pii.text)[1][2] < EmailSpans(pii.text, 1)[1][1]

(***************************************************************************)
(* The overlap of consecutive chunks.                                      *)
(***************************************************************************)
\* the number of usable Turns the n-th chunk consumed
Consumed(n) == chunk_log[n].end_i - chunk_log[n].start_i + 1

\* the 0-based indices into usable of the Turns the n-th chunk consumed
ConsumedSet(n) == chunk_log[n].start_i .. chunk_log[n].end_i

\* min(overlap_turns, k - 1)
OverlapOf(k) == IF overlap_turns <= k - 1 THEN overlap_turns ELSE k - 1

\* s is a prefix of t
IsPrefix(s, t) == Len(s) <= Len(t) /\ SubSeq(t, 1, Len(s)) = s

\* C29: after a chunk that consumed k >= 1 usable Turns, the next chunk
\* starts with exactly the last min(overlap_turns, k - 1) Turns of that chunk
\* (in its indices and in its text) and goes on with Turns the first did not
\* consume; with overlap_turns = 0 no usable Turn is consumed by two chunks
C29_OverlapAmount ==
    /\ \A n \in 1..(Len(chunk_log) - 1) :
          Consumed(n) >= 1 =>
              \A m \in {OverlapOf(Consumed(n))} :
                  /\ chunk_log[n + 1].start_i = chunk_log[n].end_i + 1 - m
                  /\ Consumed(n + 1) >= m
                  /\ IsPrefix(
                        JoinLines([j \in 1..m |->
                            Render(turns[usable[chunk_log[n].end_i + 1 - m + j]])]),
                        chunks[n + 1].text)
    /\ overlap_turns = 0 =>
          \A a, b \in DOMAIN chunk_log :
              a # b => ConsumedSet(a) \cap ConsumedSet(b) = {}

C29_Witness ==
    /\ pc = "done"
    /\ overlap_turns = 2
    /\ \E n \in 1..(Len(chunk_log) - 1) :
          /\ Consumed(n) = 2
          /\ chunk_log[n + 1].start_i = chunk_log[n].end_i
          /\ chunk_log[n + 1].end_i > chunk_log[n].end_i
    /\ \E n \in 1..(Len(chunk_log) - 1) :
          /\ Consumed(n) >= 3
          /\ chunk_log[n + 1].start_i = chunk_log[n].end_i - 1

(***************************************************************************)
(* The shape of a slug.                                                    *)
(***************************************************************************)
\* C30: the slug of every title has at most 120 characters, all of them
\* a-z, 0-9 or hyphens, no two hyphens in a row and no hyphen at either end
C30_SlugShape ==
    slug.pc = "done" =>
        /\ Len(slug.id) <= 120
        /\ \A n \in DOMAIN slug.id : slug.id[n] \in SlugChars \cup {"-"}
        /\ \A n \in 1..(Len(slug.id) - 1) :
              ~(slug.id[n] = "-" /\ slug.id[n + 1] = "-")
        /\ slug.id # <<>> => slug.id[1] # "-" /\ slug.id[Len(slug.id)] # "-"

(***************************************************************************)
(* Conversation needs a sponsor block.                                     *)
(***************************************************************************)
\* some Turn of the episode contains a sponsor-start phrase
HasSponsorStart ==
    \E n \in DOMAIN turns : AnyIn(SPONSOR_START, Lower(turns[n].text))

\* C31: a Turn is labelled conversation only after a Turn labelled sponsor,
\* and no Turn is labelled intro after a Turn labelled sponsor; so an episode
\* without sponsor-start phrase has no conversation Turn and, with
\* include_intro off, gives no chunk
C31_ConversationNeedsSponsor ==
    /\ \A k \in 1..LabelledCount :
          /\ turns[k].section_type = "conversation" =>
                \E j \in 1..(k - 1) : turns[j].section_type = "sponsor"
          /\ turns[k].section_type = "intro" =>
                \A j \in 1..(k - 1) : turns[j].section_type # "sponsor"
    /\ ~HasSponsorStart =>
          /\ \A k \in 1..LabelledCount : turns[k].section_type # "conversation"
          /\ (pc \in {"chunking", "done"} /\ ~include_intro) =>
                usable = <<>> /\ chunks = <<>> /\ pc = "done"

C31_Witness ==
    /\ pc = "done"
    /\ ~HasSponsorStart
    /\ ~include_intro
    /\ target_words = 1
    /\ Len(turns) = 3
    /\ \A k \in DOMAIN turns :
          /\ turns[k].section_type = "intro"
          /\ ~turns[k].is_elided
          /\ turns[k].text # <<>>
    /\ chunks = <<>>

(***************************************************************************)
(* The start time of a sponsor segment.                                    *)
(***************************************************************************)
\* C32: sponsor_start_t is set exactly by the Turn that switches sponsor
\* mode on (to that Turn's t, also for a new segment after an exit) and
\* cleared exactly by the Turn that switches it off; a sponsor-start phrase
\* seen while sponsor mode stays active leaves it unchanged
C32_SegmentStart ==
    [][IsLabelTurn =>
        /\ sponsor_mode <=> sponsor_start_t # None
        /\ sponsor_mode' <=> sponsor_start_t' # None
        /\ IF ~sponsor_mode /\ sponsor_mode'
           THEN /\ NextTurnHas(SPONSOR_START)
                /\ sponsor_start_t' = Some(turns[lab_i + 1].t)
           ELSE IF sponsor_mode /\ sponsor_mode'
           THEN sponsor_start_t' = sponsor_start_t
           ELSE sponsor_start_t' = None
        /\ (/\ ~outro_mode
            /\ ~sponsor_mode
            /\ ~NextTurnHas(OUTRO_MARKERS)
            /\ NextTurnHas(SPONSOR_START)) => sponsor_mode']_vars

C32_Witness ==
    /\ pc = "labeled"
    /\ Len(turns) = 4
    /\ turns[1].t = 10
    /\ turns[1].section_type = "sponsor"
    /\ turns[2].t = 490
    /\ AnyIn(SPONSOR_START, Lower(turns[2].text))
    /\ turns[2].section_type = "sponsor"
    /\ turns[3].t = 491
    /\ ~AnyIn(SPONSOR_TRANSITION, Lower(turns[3].text))
    /\ turns[3].section_type = "conversation"
    /\ turns[4].t = 490
    /\ turns[4].section_type = "sponsor"
    /\ sponsor_mode
    /\ sponsor_start_t = Some(490)

(***************************************************************************)
(* Redaction and the PII reports of ingest_folder.                         *)
(***************************************************************************)
\* C33: with redaction enabled no emitted Turn carries pii_flags and no
\* episode is reported as holding PII, in the index line or in the manifest
\* row and its notes
C33_RedactedReportsNoPii ==
    redact =>
        /\ \A id \in DOMAIN episodes :
              \A n \in DOMAIN episodes[id].turns :
                  episodes[id].turns[n].pii_flags = None
        /\ \A k \in DOMAIN f_index : ~f_index[k].has_pii
        /\ \A k \in 2..Len(f_csv) : ~f_csv[k].has_pii /\ f_csv[k].notes = ""

(***************************************************************************)
(* The coverage of the usable Turns by the chunks.                         *)
(***************************************************************************)
\* C34: with target_words >= 1 every chunk consumes at least one usable
\* Turn, the first chunk starts at usable index 0, each next chunk starts no
\* later than one past the end of the chunk before it and ends no earlier
\* than that chunk, and when make_chunks has returned the last chunk ends at
\* the last usable Turn and every usable Turn is consumed by some chunk
C34_ChunksCoverUsable ==
    target_words >= 1 =>
        /\ \A n \in DOMAIN chunk_log : Consumed(n) >= 1
        /\ chunk_log # <<>> => chunk_log[1].start_i = 0
        /\ \A n \in 1..(Len(chunk_log) - 1) :
              /\ chunk_log[n + 1].end_i >= chunk_log[n].end_i
              /\ chunk_log[n + 1].start_i <= chunk_log[n].end_i + 1
        /\ (pc = "done" /\ usable # <<>>) =>
              /\ chunk_log # <<>>
              /\ chunk_log[Len(chunk_log)].end_i = Len(usable) - 1
              /\ \A u \in 0..(Len(usable) - 1) :
                    \E n \in DOMAIN chunk_log : u \in ConsumedSet(n)

C34_Witness ==
    /\ pc = "done"
    /\ target_words >= 1
    /\ Len(usable) >= 3
    /\ Len(chunk_log) >= 2
    /\ \E n \in DOMAIN chunk_log : Consumed(n) >= 2
    /\ \E n \in 1..(Len(chunk_log) - 1) :
          chunk_log[n + 1].end_i = chunk_log[n].end_i

(***************************************************************************)
(* The backend: the agents (agents/base.py), CounterNarrativeWorkflow.run  *)
(* (workflow.py), WorkflowService (services/workflow_service.py) and the   *)
(* routes (api/routes.py).  One request is served at a time; an agent call *)
(* (a blocking call, or an await of asyncio.to_thread) ends a step.        *)
(***************************************************************************)
MaxRequests == 2
MaxItems == 1
MaxStored == 2

\* what json.loads can return: an object or an array holding 0..MaxItems
\* items, or a value that is neither
JsonValues ==
    {[shape |-> sh, items |-> n] : sh \in {"dict", "list"}, n \in 0..MaxItems}
        \cup {[shape |-> "other", items |-> 0]}

\* AgentResponse(success=True, data=data, ...)
Succeeded(data) == [raised |-> FALSE, success |-> TRUE, data |-> data]

\* AgentResponse(success=False, data={}, ...)
Failed == [raised |-> FALSE, success |-> FALSE, data |-> EmptyDict]

\* the call raises before BaseAgent.run catches anything: the vector search
\* of ForethoughtAgent.run, finding.get / arg.get on an item that is no dict
Raised == [raised |-> TRUE, success |-> FALSE, data |-> EmptyDict]

\* the outcomes of one agent call
AgentOutcomes == {Raised, Failed} \cup {Succeeded(d) : d \in JsonValues}

\* QuickactionAgent.run(forethought_output): finding.get raises when a
\* finding is no dict
QuickactionOutcomes(forethought_output) ==
    IF forethought_output.items > 0 THEN AgentOutcomes
    ELSE AgentOutcomes \ {Raised}

\* ExaminerAgent.run(quickaction_output) after the Quickaction response qr:
\* quickaction_output.get raises AttributeError unless quickaction_output is
\* a dict; arg.get raises when an argument is no dict, the join of
\* common_threads when a thread is no string; the {} of a failed response
\* and the dict made of an empty list raise nothing
ExaminerOutcomes(quickaction_output, qr) ==
    IF quickaction_output.shape # "dict" THEN {Raised}
    ELSE IF qr.success /\ (qr.data.shape = "dict" \/ qr.data.items > 0)
    THEN AgentOutcomes
    ELSE AgentOutcomes \ {Raised}

\* the argument conventional_wisdom
Belief == [shape |-> "str", items |-> 0]

\* {"contrarian_findings": [n items], ...}
DictOf(n) == [shape |-> "dict", items |-> n]

WorkflowResult(fo, qo, eo, ok, errs) ==
    [forethought_output |-> fo, quickaction_output |-> qo,
     examiner_output |-> eo, success |-> ok, errors |-> errs]

\* a stage of a workflow: what it leaves in the locals, where it goes on
\* ("quickaction", "examiner", "return", or "raise" when an exception leaves
\* the function), the WorkflowResult it returns, the progress updates it sends
Stage(next, l, res, sends) ==
    [next |-> next, loc |-> l, result |-> res, sends |-> sends]

(***************************************************************************)
(* CounterNarrativeWorkflow.run                                            *)
(***************************************************************************)
\* run, stage 1: the Forethought response is handled, the findings checked
RunAfterForethought(l, fr) ==
    IF fr.raised \/ (fr.success /\ fr.data.shape = "other")
    THEN Stage("raise", l, None, <<>>)
    ELSE LET data == IF fr.success THEN DictOf(fr.data.items)
                     ELSE l.forethought_data
             errors == IF fr.success THEN l.errors
                       ELSE Append(l.errors, "Forethought failed")
             l2 == [l EXCEPT !.forethought_data = data, !.errors = errors]
         IN  IF data.items = 0
             THEN Stage("return", l2,
                        Some(WorkflowResult(data, EmptyDict, EmptyDict, FALSE,
                             Append(errors, "No contrarian perspectives found"))),
                        <<>>)
             ELSE Stage("quickaction", l2, None, <<>>)

\* run, stage 2: the Quickaction response is handled
RunAfterQuickaction(l, qr) ==
    IF qr.raised THEN Stage("raise", l, None, <<>>)
    ELSE IF qr.success
    THEN Stage("examiner",
               [l EXCEPT !.quickaction_data =
                    IF qr.data.shape = "list" THEN DictOf(qr.data.items)
                    ELSE qr.data],
               None, <<>>)
    ELSE Stage("examiner",
               [l EXCEPT !.errors = Append(@, "Quickaction failed")],
               None, <<>>)

\* run, stage 3 as it would be if the result always reported success
RunAfterExaminerAlwaysOk(l, er) ==
    IF er.raised THEN Stage("raise", l, None, <<>>)
    ELSE LET l2 == IF er.success THEN [l EXCEPT !.examiner_data = er.data]
                   ELSE [l EXCEPT !.errors = Append(@, "Examiner failed")]
         IN  Stage("return", l2,
                   Some(WorkflowResult(l2.forethought_data, l2.quickaction_data,
                                       l2.examiner_data, TRUE, l2.errors)),
                   <<>>)

\* run, stage 3: the Examiner response is handled, the result compiled
RunAfterExaminer(l, er) ==
    IF er.raised THEN Stage("raise", l, None, <<>>)
    ELSE LET l2 == IF er.success THEN [l EXCEPT !.examiner_data = er.data]
                   ELSE [l EXCEPT !.errors = Append(@, "Examiner failed")]
         IN  Stage("return", l2,
                   Some(WorkflowResult(l2.forethought_data, l2.quickaction_data,
                                       l2.examiner_data, l2.errors = <<>>,
                                       l2.errors)),
                   <<>>)

(***************************************************************************)
(* WorkflowService._run_workflow_with_progress                             *)
(***************************************************************************)
\* ProgressUpdate(agent=..., status=...)
Msg(agent, status) == [agent |-> agent, status |-> status]

\* the except branch: a workflow error update, then a failed result
Except(l) ==
    Stage("return", l,
          Some(WorkflowResult(EmptyDict, EmptyDict, EmptyDict, FALSE,
                              <<"exception">>)),
          <<Msg("workflow", "error")>>)

\* _normalize_forethought(data)
NormalizeForethought(data) ==
    IF data.shape = "list" THEN DictOf(data.items)
    ELSE IF data.shape # "dict" THEN DictOf(0)
    ELSE data

\* as ProgressAfterForethought, were the workflow not stopped when Forethought
\* reports no conventional wisdom: Quickaction is announced whatever it found
ProgressAfterForethoughtAnyFindings(l, fr) ==
    IF fr.raised THEN Except(l)
    ELSE LET normalized == NormalizeForethought(fr.data)
             l2 == [l EXCEPT !.forethought_data = normalized]
         IN  Stage("quickaction", l2, None,
                   <<Msg("forethought", "completed"),
                     Msg("quickaction", "started")>>)

\* the Forethought result is normalised, its completion reported, the
\* findings checked, the start of Quickaction reported
ProgressAfterForethought(l, fr) ==
    IF fr.raised THEN Except(l)
    ELSE LET normalized == NormalizeForethought(fr.data)
             l2 == [l EXCEPT !.forethought_data = normalized]
         IN  IF normalized.items = 0
             THEN Stage("return", l2,
                        Some(WorkflowResult(normalized, EmptyDict, EmptyDict,
                             FALSE,
                             <<"No contrarian perspectives found in podcast data">>)),
                        <<Msg("forethought", "completed")>>)
             ELSE Stage("quickaction", l2, None,
                        <<Msg("forethought", "completed"),
                          Msg("quickaction", "started")>>)

\* the completion of Quickaction and the start of Examiner are reported
ProgressAfterQuickaction(l, qr) ==
    IF qr.raised THEN Except(l)
    ELSE Stage("examiner", [l EXCEPT !.quickaction_data = qr.data], None,
               <<Msg("quickaction", "completed"), Msg("examiner", "started")>>)

\* the completion of Examiner is reported, the result created
ProgressAfterExaminer(l, er) ==
    IF er.raised THEN Except(l)
    ELSE Stage("return", [l EXCEPT !.examiner_data = er.data],
               Some(WorkflowResult(l.forethought_data, l.quickaction_data,
                                   er.data, TRUE, <<>>)),
               <<Msg("examiner", "completed")>>)

(***************************************************************************)
(* routes.py                                                               *)
(***************************************************************************)
\* what VectorStore() and load_from_file can do in one call of
\* get_vectorstore: the constructor raises or not, the load raises or not,
\* and the number of chunks the collection holds afterwards (a load that
\* raises has not stored every chunk)
LoadOutcomes ==
    {[ctor_raised |-> c, raised |-> r, count |-> n] :
        c \in BOOLEAN, r \in BOOLEAN, n \in 0..MaxStored}
      \ {[ctor_raised |-> c, raised |-> TRUE, count |-> MaxStored] :
            c \in BOOLEAN}

\* get_vectorstore(): whether it raises, and the module state it leaves
get_vectorstore(srv, lo) ==
    IF srv.vectorstore # None THEN [raised |-> FALSE, server |-> srv]
    ELSE IF lo.ctor_raised THEN [raised |-> TRUE, server |-> srv]
    ELSE LET made == [srv EXCEPT !.vectorstore = Some(srv.created + 1),
                                 !.created = @ + 1]
         IN  IF made.collection_count > 0
             THEN [raised |-> FALSE, server |-> made]
             ELSE [raised |-> lo.raised,
                   server |-> [made EXCEPT
                       !.loads = @ + 1,
                       !.load_raised = @ \/ lo.raised,
                       !.collection_count = lo.count]]

\* get_workflow_service()
get_workflow_service(srv, lo) ==
    IF srv.workflow_service # None THEN [raised |-> FALSE, server |-> srv]
    ELSE LET g == get_vectorstore(srv, lo)
         IN  IF g.raised THEN g
             ELSE [raised |-> FALSE,
                   server |-> [g.server EXCEPT
                       !.workflow_service = g.server.vectorstore]]

\* VectorStore.is_loaded()
is_loaded(srv) == srv.collection_count > 0

Http(endpoint, code, detail) ==
    [endpoint |-> endpoint, code |-> code, detail |-> detail]

otherVars == <<pipelineVars, piiVars, slugVars, ingestVars>>

\* GET /api/health
health_check ==
    /\ request.pc = "idle"
    /\ served < MaxRequests
    /\ \E lo \in LoadOutcomes :
          LET g == get_vectorstore(server, lo)
              vectorstore_loaded == ~g.raised /\ is_loaded(g.server)
          IN  /\ server' = g.server
              /\ response' = Some(Http("health", 200,
                    <<IF server.api_key_configured /\ vectorstore_loaded
                      THEN "healthy" ELSE "degraded">>))
    /\ request' = [kind |-> "health", pc |-> "idle"]
    /\ served' = served + 1
    /\ UNCHANGED <<workflowVars, sent, closed, otherVars>>

\* GET /api/stats
get_stats ==
    /\ request.pc = "idle"
    /\ served < MaxRequests
    /\ \E lo \in LoadOutcomes :
          LET g == get_vectorstore(server, lo)
          IN  /\ server' = g.server
              /\ response' =
                    IF g.raised
                    THEN Some(Http("stats", 500, <<"Error fetching stats: exception">>))
                    ELSE IF ~is_loaded(g.server)
                    THEN Some(Http("stats", 500,
                              <<"Error fetching stats: 503: Vector store not loaded">>))
                    ELSE Some(Http("stats", 200, <<>>))
    /\ request' = [kind |-> "stats", pc |-> "idle"]
    /\ served' = served + 1
    /\ UNCHANGED <<workflowVars, sent, closed, otherVars>>

\* POST /api/query up to the first agent call of workflow.run
query_counter_narratives ==
    /\ request.pc = "idle"
    /\ served < MaxRequests
    /\ served' = served + 1
    /\ agents' = NoAgents
    /\ invoked' = <<>>
    /\ loc' = RunLocals
    /\ result' = None
    /\ IF ~server.api_key_configured
       THEN /\ response' = Some(Http("query", 401, <<"OPENROUTER_API_KEY not configured">>))
            /\ request' = [kind |-> "query", pc |-> "idle"]
            /\ UNCHANGED server
       ELSE \E lo \in LoadOutcomes :
               LET g == get_workflow_service(server, lo)
               IN  /\ server' = g.server
                   /\ response' = IF g.raised
                                  THEN Some(Http("query", 500, <<"Error processing query: exception">>))
                                  ELSE None
                   /\ request' = [kind |-> "query",
                                  pc |-> IF g.raised THEN "idle" ELSE "forethought"]
    /\ UNCHANGED <<sent, closed, otherVars>>

\* the rest of POST /api/query once a stage of workflow.run has ended
QueryContinue(s) ==
    /\ loc' = s.loc
    /\ result' = s.result
    /\ request' = [kind |-> "query",
                   pc |-> IF s.next \in {"raise", "return"} THEN "idle" ELSE s.next]
    /\ response' =
          IF s.next = "raise"
          THEN Some(Http("query", 500, <<"Error processing query: exception">>))
          ELSE IF s.next = "return"
          THEN IF s.result[1].success THEN Some(Http("query", 200, <<>>))
               ELSE Some(Http("query", 500, s.result[1].errors))
          ELSE None
    /\ UNCHANGED <<server, served, sent, closed, otherVars>>

\* workflow.run: self.forethought.run(...) and stage 1
RunForethought ==
    /\ request = [kind |-> "query", pc |-> "forethought"]
    /\ \E fr \in AgentOutcomes :
          /\ agents' = [agents EXCEPT !.forethought = Some(fr)]
          /\ invoked' = Append(invoked, [agent |-> "forethought", input |-> Belief])
          /\ QueryContinue(RunAfterForethought(loc, fr))

\* workflow.run: self.quickaction.run(forethought_data) and stage 2
RunQuickaction ==
    /\ request = [kind |-> "query", pc |-> "quickaction"]
    /\ \E qr \in QuickactionOutcomes(loc.forethought_data) :
          /\ agents' = [agents EXCEPT !.quickaction = Some(qr)]
          /\ invoked' = Append(invoked, [agent |-> "quickaction",
                                         input |-> loc.forethought_data])
          /\ QueryContinue(RunAfterQuickaction(loc, qr))

\* workflow.run: self.examiner.run(quickaction_data, ...) and stage 3
RunExaminer ==
    /\ request = [kind |-> "query", pc |-> "examiner"]
    /\ \E er \in ExaminerOutcomes(loc.quickaction_data, agents.quickaction[1]) :
          /\ agents' = [agents EXCEPT !.examiner = Some(er)]
          /\ invoked' = Append(invoked, [agent |-> "examiner",
                                         input |-> loc.quickaction_data])
          /\ QueryContinue(RunAfterExaminer(loc, er))

\* the request a client can send on the WebSocket
StreamRequests == {"not json", "invalid", "valid"}

\* WebSocket /api/query/stream up to the first agent call
query_stream ==
    /\ request.pc = "idle"
    /\ served < MaxRequests
    /\ served' = served + 1
    /\ agents' = NoAgents
    /\ invoked' = <<>>
    /\ loc' = RunLocals
    /\ result' = None
    /\ response' = None
    /\ \E data \in StreamRequests, lo \in LoadOutcomes :
          IF data # "valid" \/ ~server.api_key_configured
          THEN /\ sent' = <<Msg("system", "error")>>
               /\ closed' = TRUE
               /\ request' = [kind |-> "stream", pc |-> "idle"]
               /\ UNCHANGED server
          ELSE LET g == get_workflow_service(server, lo)
               IN  /\ server' = g.server
                   /\ sent' = IF g.raised THEN <<Msg("system", "error")>>
                              ELSE <<Msg("workflow", "started"),
                                     Msg("forethought", "started")>>
                   /\ closed' = g.raised
                   /\ request' = [kind |-> "stream",
                                  pc |-> IF g.raised THEN "idle" ELSE "forethought"]
    /\ UNCHANGED otherVars

\* the rest of query_stream once a stage of _run_workflow_with_progress has
\* ended: the updates of the stage, then on return the final update and close
StreamContinue(s) ==
    /\ loc' = s.loc
    /\ result' = s.result
    /\ request' = [kind |-> "stream",
                   pc |-> IF s.next = "return" THEN "idle" ELSE s.next]
    /\ sent' = sent \o s.sends \o
                  (IF s.next # "return" THEN <<>>
                   ELSE IF s.result[1].success
                   THEN <<Msg("workflow", "completed")>>
                   ELSE <<Msg("workflow", "error")>>)
    /\ closed' = (s.next = "return")
    /\ UNCHANGED <<server, served, response, otherVars>>

\* _run_workflow_with_progress: self.workflow.forethought.run(...)
ProgressForethought ==
    /\ request = [kind |-> "stream", pc |-> "forethought"]
    /\ \E fr \in AgentOutcomes :
          /\ agents' = [agents EXCEPT !.forethought = Some(fr)]
          /\ invoked' = Append(invoked, [agent |-> "forethought", input |-> Belief])
          /\ StreamContinue(ProgressAfterForethought(loc, fr))

\* _run_workflow_with_progress: self.workflow.quickaction.run(normalized)
ProgressQuickaction ==
    /\ request = [kind |-> "stream", pc |-> "quickaction"]
    /\ \E qr \in QuickactionOutcomes(loc.forethought_data) :
          /\ agents' = [agents EXCEPT !.quickaction = Some(qr)]
          /\ invoked' = Append(invoked, [agent |-> "quickaction",
                                         input |-> loc.forethought_data])
          /\ StreamContinue(ProgressAfterQuickaction(loc, qr))

\* _run_workflow_with_progress: self.workflow.examiner.run(data, ...)
ProgressExaminer ==
    /\ request = [kind |-> "stream", pc |-> "examiner"]
    /\ \E er \in ExaminerOutcomes(loc.quickaction_data, agents.quickaction[1]) :
          /\ agents' = [agents EXCEPT !.examiner = Some(er)]
          /\ invoked' = Append(invoked, [agent |-> "examiner",
                                         input |-> loc.quickaction_data])
          /\ StreamContinue(ProgressAfterExaminer(loc, er))

\* a process whose configuration has the API key or not, and whose persisted
\* collection is empty or full
InitApi ==
    /\ pc = "api"
    /\ redact = FALSE
    /\ lines = <<>>
    /\ cur = None
    /\ turns = <<>>
    /\ lab_i = 0
    /\ sponsor_mode = FALSE
    /\ sponsor_start_t = None
    /\ outro_mode = FALSE
    /\ section_writes = <<>>
    /\ include_intro = FALSE
    /\ target_words = 0
    /\ overlap_turns = 0
    /\ usable = <<>>
    /\ mc_i = 0
    /\ chunk_id = 0
    /\ chunks = <<>>
    /\ chunk_log = <<>>
    /\ pii = PiiIdle
    /\ slug = SlugIdle
    /\ IngestIdle
    /\ \E key \in BOOLEAN, count \in {0, MaxStored} :
          server = [ServerDown EXCEPT !.api_key_configured = key,
                                      !.collection_count = count]
    /\ request = NoRequest
    /\ served = 0
    /\ agents = NoAgents
    /\ invoked = <<>>
    /\ loc = RunLocals
    /\ result = None
    /\ sent = <<>>
    /\ closed = FALSE
    /\ response = None

NextApi ==
    \/ health_check
    \/ get_stats
    \/ query_counter_narratives
    \/ RunForethought
    \/ RunQuickaction
    \/ RunExaminer
    \/ query_stream
    \/ ProgressForethought
    \/ ProgressQuickaction
    \/ ProgressExaminer

SpecApi == InitApi /\ [][NextApi]_vars

(***************************************************************************)
(* The order of the agents and the early stop.                             *)
(***************************************************************************)
AgentNames == <<"forethought", "quickaction", "examiner">>

\* the agents called so far in this request, in order
InvokedNames == [k \in DOMAIN invoked |-> invoked[k].agent]

\* the response reports a failure, or a well-formed answer has no finding
NoFindings(fr) ==
    /\ ~fr.raised
    /\ \/ ~fr.success
       \/ fr.data.shape \in {"dict", "list"} /\ fr.data.items = 0

Reported(a) == agents[a] # None /\ agents[a][1].success

\* C36: a result of workflow.run has success = true exactly if its errors
\* list is empty, and exactly if all three agents reported success and
\* Forethought gave at least one finding; after a Quickaction response that
\* reports failure the Examiner is called with the empty Quickaction output,
\* and the result, if one is returned, has success = false
C36_SuccessIffNoErrors ==
    request = [kind |-> "query", pc |-> "idle"] =>
        /\ result # None =>
              /\ result[1].success <=> result[1].errors = <<>>
              /\ result[1].success <=>
                    /\ \A k \in DOMAIN AgentNames : Reported(AgentNames[k])
                    /\ agents.forethought[1].data.items > 0
        /\ (agents.quickaction # None /\ agents.quickaction[1] = Failed) =>
              /\ Len(invoked) = 3
              /\ invoked[3] = [agent |-> "examiner", input |-> EmptyDict]
              /\ result # None
              /\ ~result[1].success

C36_Witness ==
    /\ request = [kind |-> "query", pc |-> "idle"]
    /\ agents.quickaction = Some(Failed)
    /\ Reported("forethought")
    /\ Reported("examiner")
    /\ result # None
    /\ result[1].errors = <<"Quickaction failed">>
    /\ response = Some(Http("query", 500, <<"Quickaction failed">>))

(***************************************************************************)
(* The streaming path against CounterNarrativeWorkflow.run.                *)
(***************************************************************************)
\* what CounterNarrativeWorkflow.run does when the agents answer fr, qr, er
RunOutcome(fr, qr, er) ==
    LET s1 == RunAfterForethought(RunLocals, fr)
    IN  IF s1.next # "quickaction" THEN s1
        ELSE LET s2 == RunAfterQuickaction(s1.loc, qr)
             IN  IF s2.next # "examiner" THEN s2
                 ELSE RunAfterExaminer(s2.loc, er)

\* the response of the agent, or a placeholder if it was not called
ResponseOf(a) == IF agents[a] = None THEN Failed ELSE agents[a][1]

\* C37: when a streamed request is over and no agent call raised, the result
\* of the streaming path has the success flag that workflow.run returns for
\* the same agent responses, and like it reports an error when a stage failed
C37_StreamAgreesWithRun ==
    (/\ request = [kind |-> "stream", pc |-> "idle"]
     /\ result # None
     /\ \A k \in DOMAIN AgentNames : ~ResponseOf(AgentNames[k]).raised) =>
        \A direct \in {RunOutcome(ResponseOf("forethought"),
                                  ResponseOf("quickaction"),
                                  ResponseOf("examiner"))} :
            direct.result # None =>
                /\ result[1].success = direct.result[1].success
                /\ (result[1].errors = <<>>) = (direct.result[1].errors = <<>>)

(***************************************************************************)
(* The messages of /api/query/stream.                                      *)
(***************************************************************************)
\* the progress updates of a request that runs all three agents
ProgressOrder ==
    <<Msg("workflow", "started"),
      Msg("forethought", "started"), Msg("forethought", "completed"),
      Msg("quickaction", "started"), Msg("quickaction", "completed"),
      Msg("examiner", "started"), Msg("examiner", "completed")>>

Terminal(m) == m.agent = "workflow" /\ m.status \in {"completed", "error"}

Sent(m) == \E k \in DOMAIN sent : sent[k] = m

\* C38: the messages of a request that got as far as `workflow started` are a
\* prefix of: workflow started, forethought started, forethought completed,
\* quickaction started, quickaction completed, examiner started, examiner
\* completed, followed by at most one terminal workflow message; the socket
\* is closed exactly when that one terminal message has been sent; quickaction
\* starts only if there are findings, and workflow completed comes only after
\* examiner completed
C38_StreamMessageOrder ==
    (request.kind = "stream" /\ sent # <<>> /\ sent[1] = Msg("workflow", "started")) =>
        /\ IsPrefix(SelectSeq(sent, LAMBDA m : ~Terminal(m)), ProgressOrder)
        /\ Len(SelectSeq(sent, Terminal)) <= 1
        /\ closed <=> Len(SelectSeq(sent, Terminal)) = 1
        /\ closed => Terminal(sent[Len(sent)])
        /\ Sent(Msg("quickaction", "started")) => loc.forethought_data.items > 0
        /\ Sent(Msg("workflow", "completed")) =>
              sent[Len(sent) - 1] = Msg("examiner", "completed")

(***************************************************************************)
(* get_vectorstore after a failed load.                                    *)
(***************************************************************************)
\* C39: at most one VectorStore is created; load_from_file is called only by
\* the call that creates it, on an empty collection; once load_from_file has
\* raised, _vectorstore stays assigned to the same store, the collection is
\* empty, no later request loads again, every later /health reports degraded
\* and every later /stats reports that the store is not loaded
C39_FailedLoadLeavesEmptyStore ==
    [][/\ server'.created <= 1
       /\ server'.loads > server.loads =>
             /\ server.vectorstore = None
             /\ server.collection_count = 0
             /\ server'.vectorstore # None
       /\ server.load_raised =>
             /\ server'.vectorstore = server.vectorstore
             /\ server'.loads = server.loads
             /\ server.vectorstore # None
             /\ server.collection_count = 0
             /\ (served' > served /\ request'.kind = "health") =>
                   response' = Some(Http("health", 200, <<"degraded">>))
             /\ (served' > served /\ request'.kind = "stats") =>
                   response' = Some(Http("stats", 500,
                       <<"Error fetching stats: 503: Vector store not loaded">>))
      ]_vars

====
